---- MODULE Spec2Model ----
(***************************************************************************)
(* A model of the SSHLibrary client layer (SSHClient, RemoteCommand,       *)
(* Shell): the Session's cached sub-resources, its logins and what they    *)
(* ask of the paramiko client, its stack of started commands, the draining *)
(* of a command's channel under a timeout, and the character-by-character  *)
(* read-until engine of the interactive shell.                             *)
(*                                                                         *)
(* Time is a discrete clock `now`, counted from the start of the running   *)
(* call.  The client's wait loops poll far faster than the remote side     *)
(* acts, so a remote event or a clock tick is taken only when the running  *)
(* call can make no step of its own (Blocked).                             *)
(***************************************************************************)
EXTENDS Integers, Sequences, FiniteSets, TLC

\* ------------------------------------------------------------------ bounds
MaxCommands == 2
MaxTimeout == 2
TicksPerSecond == 2
MaxBytes == 3
ChunkSize == 2          \* bytes read for one write of _put_file (4096)
MaxOutput == 2
MaxFileLen == 3         \* bytes of a file whose content matters

\* ------------------------------------------------------------------ state
VARIABLES
    client,                 \* paramiko client: "none" (no transport), "unauth"
                            \*   (transport, not authenticated) or "open"
    tunnel,                 \* SSHClient.tunnel: None, "open" or "closed"
    _sftp_client,           \* cached sub-resources: None, or an object built
    _scp_transfer_client,   \*   on the current transport ("cur"), on an
    _scp_all_client,        \*   earlier one ("old") or on none ("unbound")
    _shell,
    config,                 \* the Session's configuration: host, port and
                            \*   terminal width and height
    width,                  \* SSHClient.width, height: the terminal size the
    height,                 \*   Session last recorded
    pty,                    \* the size of the shell's terminal (None: no shell)
    _started_commands,      \* stack of started commands (their channel ids)
    chan,                   \* execution channels, by id
    pc,                     \* position of the running call ("idle": none)
    cur,                    \* channel of the command being read (0: none)
    timeout,                \* timeout of the running call, in ticks (0: None)
    end_time,               \* deadline of the running wait loop
    status_at,              \* clock value at which status_event of cur was set
    entry,                  \* the Session call that reads cur ("none": none)
    stdouts,                \* read_outputs: the chunks read from stdout
    stderrs,                \*   and from stderr so far
    now,                    \* the clock
    ret,                    \* outcome of the call that has just ended
    in_buffer,              \* bytes received on the shell's channel, unread
    server_output,          \* read_char: the bytes of a character read so far
    output,                 \* _read_until: the characters accumulated
    call,                   \* the shell call that runs or has just ended
    max_time,               \* write_until_expected: its overall deadline
    written,                \* write_until_expected: the writes of text made
    slept,                  \* the call has found nothing to read and waited
    buffered,               \* the call's match was in in_buffer when it began
    stream,                 \* in_buffer when the call began, and every byte
                            \*   received since
    local,                  \* the local file system: its entries by path
    remote,                 \* the remote file system
    open_files,             \* file handles that are open and not yet closed
    transferred             \* the copies of files the last transfer call made

vars == <<client, tunnel, _sftp_client, _scp_transfer_client, _scp_all_client,
          _shell, config, width, height, pty, _started_commands, chan, pc,
          cur, timeout, end_time,
          status_at, entry, stdouts, stderrs, now, ret, in_buffer, server_output, output, call,
          max_time, written, slept, buffered, stream, local, remote,
          open_files, transferred>>

terminal == <<config, width, height, pty>>
filesystem == <<local, remote, open_files, transferred>>
session == <<client, tunnel, _sftp_client, _scp_transfer_client,
             _scp_all_client, _shell, terminal, filesystem>>
frame == <<cur, timeout, end_time, status_at, entry, stdouts, stderrs>>
executor == <<_started_commands, chan, cur, status_at, entry, stdouts, stderrs>>
reader == <<server_output, output, max_time, written>>
history == <<call, slept, buffered, stream>>

None == "None"
ChanIds == 1..MaxCommands
Timeouts == 0..MaxTimeout

\* st: "free" (not yet opened), "open", "closed", or opened and held by no
\* command any more: "leaked" (the command could not be launched on it) and
\* "abandoned" (its read_outputs timed out); live: opened on the current
\* transport; status: status_event is set; eof: eof_received; nread, nclose:
\* read_outputs calls on it and Channel.close calls made by read_outputs.
\* The flags of a channel that no command holds are seen by nobody and are
\* kept cleared.
FreeChan == [st |-> "free", live |-> FALSE, status |-> FALSE, eof |-> FALSE,
             nread |-> 0, nclose |-> 0, out |-> <<>>, err |-> <<>>,
             nout |-> 0, nerr |-> 0]

NotYet == 0 - 1

\* The outcome of the call that has just ended: the exception it raised
\* ("none": it returned) and its message; secs: the whole seconds the message
\* names; t: the timeout the call was given; at: the clock value at which the
\* command it read completed; n: the objects close discarded, the writes
\* write_until_expected made, the objects a property read created; exp, out:
\* the expected text or pattern and the output the message embeds or, for
\* out, the call returns (<<>>: none, else one element); args: the arguments
\* a login was given and what it met (<<>>: none, else one element); calls:
\* the calls a login made on its collaborators, in order; again: the call
\* before this one was a close too; resize: the call sent a resize to the
\* shell's terminal.
Ret(op, exc, msg) ==
    [op |-> op, exc |-> exc, msg |-> msg, secs |-> 0, t |-> 0, at |-> NotYet,
     n |-> 0, exp |-> <<>>, out |-> <<>>, args |-> <<>>, calls |-> <<>>,
     again |-> FALSE, resize |-> FALSE]
Returned(op) == Ret(op, "none", "")
Raised(op, exc, msg) == Ret(op, exc, msg)
NoRet == Returned("none")

\* A channel after the read_outputs call that consumed it.
Dropped(ch, st) ==
    [ch EXCEPT !.st = st, !.live = FALSE, !.status = FALSE, !.eof = FALSE,
               !.out = <<>>, !.err = <<>>, !.nout = 0, !.nerr = 0]

\* A shell call: expected is the pattern it waits for, a sequence of
\* alternative texts (one for a literal text); bytes: the match is made on
\* the encoded output, after prefix; strip: how the prompt is stripped from
\* the result ("no", by its "length" or by the "span" of its match);
\* interval: the timeout handed to _read_until (0: none).
NoCall == [op |-> "none", expected |-> <<>>, prefix |-> <<>>, bytes |-> FALSE,
           strip |-> "no", interval |-> 0]

\* What is remembered of the last shell call is forgotten when another call
\* begins.
Forgotten(unread) ==
    /\ call' = NoCall
    /\ slept' = FALSE
    /\ buffered' = FALSE
    /\ stream' = unread

Front(s) == SubSeq(s, 1, Len(s) - 1)
Last(s) == s[Len(s)]

\* ------------------------------------------------ text and its encoding
\* The shell carries UTF-8: two one-byte characters, "a" and the newline "n",
\* and the two-byte character "E", encoded as the lead byte "L" and the
\* continuation byte "C".
Ascii == {"a", "n"}
Bytes == Ascii \cup {"L", "C"}

\* SSHClient._encode, of a text
RECURSIVE _encode(_)
_encode(text) ==
    IF text = <<>> THEN <<>>
    ELSE (IF Head(text) = "E" THEN <<"L", "C">> ELSE <<Head(text)>>)
            \o _encode(Tail(text))

\* SSHClient._decode with encoding_errors "strict", of the bytes read_char
\* holds: the text, or the reason of the UnicodeDecodeError.
_decode(bytes) ==
    IF bytes = <<>> THEN [reason |-> "none", text |-> <<>>]
    ELSE IF bytes[1] \in Ascii THEN [reason |-> "none", text |-> <<bytes[1]>>]
    ELSE IF bytes[1] = "C" THEN [reason |-> "invalid start byte", text |-> <<>>]
    ELSE IF Len(bytes) = 1
    THEN [reason |-> "unexpected end of data", text |-> <<>>]
    ELSE IF bytes[2] = "C" THEN [reason |-> "none", text |-> <<"E">>]
    ELSE [reason |-> "invalid continuation byte", text |-> <<>>]

\* Shell.read_byte: one byte if output is available, else none.
read_byte == IF in_buffer # <<>> THEN <<Head(in_buffer)>> ELSE <<>>

\* `e in s`
Contains(s, e) ==
    \E i \in 0..(Len(s) - Len(e)) : SubSeq(s, i + 1, i + Len(e)) = e

\* regexp.search for a pattern of alternative texts
search(pattern, s) == \E i \in 1..Len(pattern) : Contains(s, pattern[i])

\* A match tested on the output as it was before the last character.
matcher_before_append(c, out) ==
    /\ out # <<>>
    /\ IF c.bytes
       THEN \E i \in 1..Len(c.expected) :
               Contains(c.prefix \o _encode(Front(out)), _encode(c.expected[i]))
       ELSE search(c.expected, Front(out))

\* The matcher of call c, applied to the output accumulated.
matcher(c, out) ==
    IF c.bytes
    THEN \E i \in 1..Len(c.expected) :
            Contains(c.prefix \o _encode(out), _encode(c.expected[i]))
    ELSE search(c.expected, out)

\* ---------------------------------------------------------------- Session
SessionInit ==
    /\ client = "none"
    /\ tunnel = None
    /\ _sftp_client = None
    /\ _scp_transfer_client = None
    /\ _scp_all_client = None
    /\ _shell = None
    /\ config = [host |-> "alias", port |-> 22, width |-> 80, height |-> 24]
    /\ width = 80
    /\ height = 24
    /\ pty = None
    /\ _started_commands = <<>>

\* An object once the transport it was built on is closed or replaced.
Aged(v) == IF v = "cur" THEN "old" ELSE v

\* Shell.__init__ on a client in state cl: invoke_shell raises unless the
\* connection is open, and then no Shell object exists.
_create_shell(cl) == IF cl = "open" THEN "cur" ELSE None

\* property shell on a client in state cl, with sh cached: create on first
\* use, then the cached object.
shell(cl, sh) == IF sh = None THEN _create_shell(cl) ELSE sh

\* property shell: whether it calls Shell.resize on the shell sh it has got.
resize(sh) == sh # None /\ (width # config.width \/ height # config.height)

\* property shell, read on a client in state cl with sh cached: the shell is
\* created with the configured size, resized to it when the size recorded
\* differs, and the size recorded becomes the configured one.
shell_read(cl, sh) ==
    /\ _shell' = shell(cl, sh)
    /\ pty' = IF _shell' = None THEN pty
              ELSE IF sh = None \/ resize(_shell')
              THEN <<config.width, config.height>>
              ELSE pty
    /\ width' = IF resize(_shell') THEN config.width ELSE width
    /\ height' = IF resize(_shell') THEN config.height ELSE height

\* ------------------------------------------------------------- channels
\* Transport.close closes every channel opened on it (and wakes waiters).
TransportClosed(ch) ==
    [c \in ChanIds |->
        IF ch[c].st = "open" /\ ch[c].live
        THEN [ch[c] EXCEPT !.st = "closed", !.status = TRUE, !.live = FALSE]
        ELSE [ch[c] EXCEPT !.live = FALSE]]

\* client.connect made a new transport: the channels stay on the earlier one.
TransportReplaced(ch) == [c \in ChanIds |-> [ch[c] EXCEPT !.live = FALSE]]

\* RemoteCommand._shell_open: eof_sent is never set and active is set on open.
_shell_open(c) == ~(chan[c].st = "closed" \/ chan[c].eof)

\* The running call waits for the remote side or the clock: the polling loops
\* of the command executor, the loop of _read_until that has found nothing to
\* read and finds nothing again, and the loop of read_char that holds the
\* beginning of a character and finds nothing to read.
Blocked ==
    \/ pc = "receive" /\ _shell_open(cur) /\ (timeout = 0 \/ chan[cur].status)
    \/ pc = "flush" /\ now < end_time /\ ~chan[cur].status
    \/ pc = "recv_exit_status" /\ ~chan[cur].status
    \/ /\ pc = "_read_until"
       /\ in_buffer = <<>>
       /\ now < end_time
       /\ slept
       /\ ~matcher(call, output)
    \/ pc = "read_char" /\ in_buffer = <<>>

EnvEnabled == pc = "idle" \/ Blocked

\* ------------------------------------------------------ login and close
\* An entry of ~/.ssh/config, as paramiko's lookup returns it for the host:
\* each key is defined (one value) or not (<<>>).  "cfg_missing" is an
\* identity file that does not exist or cannot be read.
ConfEntries ==
    [user : {<<>>, <<"cfg_user">>}, port : {<<>>, <<2222>>},
     proxycommand : {<<>>, <<"cfg_proxy">>}, hostname : {<<>>, <<"hostname">>},
     identityfile : {<<>>, <<"cfg_key">>, <<"cfg_missing">>}]

\* SSHClient._get_ssh_config_user: the KeyError of a missing key gives None.
_get_ssh_config_user(conf, user) ==
    IF conf.user # <<>> THEN conf.user[1] ELSE None

\* SSHClient._get_ssh_config_proxy_cmd
_get_ssh_config_proxy_cmd(conf, proxy_cmd) ==
    IF conf.proxycommand # <<>> THEN conf.proxycommand[1] ELSE proxy_cmd

\* SSHClient._get_ssh_config_identity_file
_get_ssh_config_identity_file(conf, id_file) ==
    IF conf.identityfile # <<>> THEN conf.identityfile[1] ELSE id_file

\* SSHClient._get_ssh_config_port
_get_ssh_config_port(conf, port_number) ==
    IF conf.port # <<>> THEN conf.port[1] ELSE port_number

\* SSHClient._get_ssh_config_host: lookup gives the host itself as hostname
\* when the entry names none.
_get_ssh_config_host(conf, host) ==
    IF conf.hostname # <<>> THEN conf.hostname[1] ELSE host

\* SSHClient._read_public_key_ssh_config (and _read_login_ssh_config, which
\* is the same without the identity file); conf: <<>> when there is no
\* ~/.ssh/config, else the entry of the host.
_read_public_key_ssh_config(conf, host, user, port, proxy, id_file) ==
    IF conf = <<>>
    THEN [host |-> host, user |-> user, port |-> port, proxy_cmd |-> proxy,
          key_file |-> id_file]
    ELSE [host |-> _get_ssh_config_host(conf[1], host),
          user |-> _get_ssh_config_user(conf[1], user),
          port |-> _get_ssh_config_port(conf[1], port),
          proxy_cmd |-> _get_ssh_config_proxy_cmd(conf[1], proxy),
          key_file |-> _get_ssh_config_identity_file(conf[1], id_file)]

\* How client.connect ends: "ok"; "auth": AuthenticationException; "noauth":
\* an SSHException on a transport that is up (no authentication method is
\* left to try); "banner": an SSHException on a transport that never came up
\* (the banner or the key exchange failed); "socket": a socket error, before
\* any transport is made.
ConnectOutcomes == {"ok", "auth", "noauth", "banner", "socket"}

\* What a login ends with: the exception ("none": it returns), the state of
\* the transport, whether client.connect made a new transport, the calls made
\* on the collaborators, and what the ssh config made of the arguments.
LoginEnd(exc, cl, new, calls, r) ==
    [exc |-> exc, client |-> cl, new |-> new, calls |-> calls, args |-> <<r>>,
     host |-> r.host, port |-> r.port]

\* The tunnel a login opens before it connects.
sock_tunnel(r) ==
    IF r.proxy_cmd # None THEN <<"ProxyCommand">>
    ELSE IF r.jumphost # None THEN <<"open_channel">>
    ELSE <<>>

\* The arguments of a login after the ssh config is read, with what the
\* login met (e) kept beside them.
Resolved(a, e) ==
    LET c == IF a.read_config
             THEN _read_public_key_ssh_config(e.ssh_config, config.host,
                      a.username, config.port, a.proxy_cmd, a.keyfile)
             ELSE [host |-> config.host, user |-> a.username,
                   port |-> config.port, proxy_cmd |-> a.proxy_cmd,
                   key_file |-> a.keyfile]
    IN [host |-> c.host, user |-> c.user, port |-> c.port,
        proxy_cmd |-> c.proxy_cmd, key_file |-> c.key_file,
        jumphost |-> a.jumphost, a |-> a, e |-> e]

\* The fallback of _login that gives up when the server rejects 'none'.
_login_fallback_stops(e) ==
    IF ~e.none_ok
    THEN [exc |-> "SSHClientException", calls |-> <<"auth_none">>]
    ELSE [exc |-> IF e.pw_ok THEN "none" ELSE "SSHClientException",
          calls |-> <<"auth_none", "auth_password">>]

\* SSHClient._login, the fallback after connect failed authentication:
\* auth_none, whose failure is passed over, then auth_password.
_login_fallback(e) ==
    [exc |-> IF e.pw_ok THEN "none" ELSE "SSHClientException",
     calls |-> <<"auth_none", "auth_password">>]

\* A login without password that gives up when its connect fails.
_login_without_password_strict(e) ==
    IF e.c # "ok" THEN [exc |-> "SSHException", calls |-> <<>>]
    ELSE [exc |-> IF e.none_ok THEN "none" ELSE "SSHClientException",
          calls |-> <<"auth_none">>]

\* SSHClient._login with no password and allow_agent unset, after a connect
\* that raised nothing or an SSHException, which is passed over: auth_none
\* on the transport the connect has left, which was never up after a failed
\* banner or key exchange.
_login_without_password(e) ==
    [exc |-> IF e.c = "banner" THEN "SSHException"
             ELSE IF e.none_ok THEN "none" ELSE "SSHClientException",
     calls |-> <<"auth_none">>]

\* A login that opens its tunnel before it looks at the two options.
_login_tunnel_first(a, e) ==
    LET r == Resolved(a, e)
    IN IF r.proxy_cmd # None /\ a.jumphost # None
       THEN LoginEnd("ValueError", client, FALSE, sock_tunnel(r), r)
       ELSE LoginEnd("none", "open", TRUE, sock_tunnel(r) \o <<"connect">>, r)

\* SSHClient._login.  a: the arguments (username; password: one is given;
\* allow_agent; proxy_cmd; jumphost: None, or a Session that is "open" or has
\* no transport, "closed"; read_config); e: what the login meets (ssh_config;
\* c: how client.connect ends; none_ok, pw_ok: whether the server accepts
\* auth_none, auth_password).
_login(a, e) ==
    LET r == Resolved(a, e)
        connect == sock_tunnel(r) \o <<"connect">>
        fb == _login_fallback(e)
        np == _login_without_password(e)
    IN IF r.proxy_cmd # None /\ a.jumphost # None
       THEN LoginEnd("ValueError", client, FALSE, <<>>, r)
       ELSE IF r.proxy_cmd = None /\ a.jumphost = "closed"
       THEN LoginEnd("RuntimeError", client, FALSE, <<>>, r)
       ELSE IF e.c = "socket"
       THEN LoginEnd("socket.error", client, FALSE, connect, r)
       ELSE IF ~a.password /\ ~a.allow_agent
       THEN LoginEnd(np.exc, IF np.exc = "none" THEN "open" ELSE "unauth",
                     TRUE, connect \o np.calls, r)
       ELSE IF e.c = "ok" THEN LoginEnd("none", "open", TRUE, connect, r)
       ELSE IF e.c = "auth"
       THEN LoginEnd(fb.exc, IF fb.exc = "none" THEN "open" ELSE "unauth",
                     TRUE, connect \o fb.calls, r)
       ELSE LoginEnd("SSHException", "unauth", TRUE, connect, r)

\* SSHClient.login_with_public_key down to the end of
\* _login_with_public_key.  a.keyfile: None, "key" or "missing" (no such
\* file, or one that cannot be read); e.pw_ok: whether the fallback's
\* auth_publickey succeeds.  exc "KeyFile" stands for the SSHClientException
\* of _verify_key_file, which is raised before the try; the same finding
\* about the key file the configuration names is raised inside the try.
_login_with_public_key(a, e) ==
    LET r == Resolved(a, e)
        connect == sock_tunnel(r) \o <<"connect">>
    IN IF a.keyfile = "missing"
       THEN LoginEnd("KeyFile", client, FALSE, <<>>,
                     [Resolved([a EXCEPT !.read_config = FALSE], e)
                         EXCEPT !.a = a])
       ELSE IF r.key_file = None
       THEN LoginEnd("RuntimeError", client, FALSE, <<>>, r)
       ELSE IF r.key_file = "cfg_missing"
       THEN LoginEnd("SSHClientException", client, FALSE, <<>>, r)
       ELSE IF r.proxy_cmd # None /\ a.jumphost # None
       THEN LoginEnd("ValueError", client, FALSE, <<>>, r)
       ELSE IF r.proxy_cmd = None /\ a.jumphost = "closed"
       THEN LoginEnd("RuntimeError", client, FALSE, <<>>, r)
       ELSE IF e.c = "socket"
       THEN LoginEnd("socket.error", client, FALSE, connect, r)
       ELSE IF e.c = "ok" THEN LoginEnd("none", "open", TRUE, connect, r)
       ELSE IF e.c = "auth"
       THEN IF e.pw_ok
            THEN LoginEnd("none", "open", TRUE,
                          connect \o <<"auth_none", "auth_publickey">>, r)
            ELSE LoginEnd("SSHClientException", "unauth", TRUE,
                          connect \o <<"auth_none", "auth_publickey">>, r)
       ELSE LoginEnd("SSHException", "unauth", TRUE, connect, r)

\* The arguments of a login and what it can meet.
LoginArgs ==
    [username : {"user"}, password : BOOLEAN, allow_agent : BOOLEAN,
     proxy_cmd : {None, "proxy"}, jumphost : {None, "open", "closed"},
     read_config : {FALSE}, keyfile : {None}]
Met ==
    [ssh_config : {<<>>}, c : ConnectOutcomes, none_ok : BOOLEAN,
     pw_ok : BOOLEAN]

\* A way a login can end, without the account of how it came to it.
Untraced(r) == [r EXCEPT !.calls = <<>>, !.args = <<>>]

\* The ways _login can end in the current state: each of them is the end of
\* one of these logins at least.
LoginResults ==
    {Untraced(_login(a, e)) :
        a \in [username : {"user"}, password : {TRUE}, allow_agent : {FALSE},
               proxy_cmd : {None}, jumphost : {None, "closed"},
               read_config : {FALSE}, keyfile : {None}],
        e \in [ssh_config : {<<>>}, c : ConnectOutcomes, none_ok : {TRUE},
               pw_ok : BOOLEAN]}

\* The end of login and login_with_public_key, with the _login of either
\* ending as r: the transport is closed on an SSHClientException, and on
\* success _read_login_output reads through self.shell.
LoggedIn(op, failed, r) ==
    /\ pc = "idle"
    /\ config' = [config EXCEPT !.host = r.host, !.port = r.port]
    /\ LET closed == r.exc = "SSHClientException" /\ ~r.new
           age(v) == IF r.new \/ closed THEN Aged(v) ELSE v
           Outcome(ret0, calls) ==
               [ret0 EXCEPT !.calls = calls, !.args = r.args]
       IN /\ _sftp_client' = age(_sftp_client)
          /\ _scp_transfer_client' = age(_scp_transfer_client)
          /\ _scp_all_client' = age(_scp_all_client)
          /\ chan' = IF r.new THEN TransportReplaced(chan)
                      ELSE IF closed THEN TransportClosed(chan) ELSE chan
          /\ IF r.exc = "SSHClientException"
             THEN /\ client' = "none"
                  /\ _shell' = age(_shell)
                  /\ UNCHANGED <<width, height, pty>>
                  /\ ret' = Outcome(Raised(op, "SSHClientException", failed),
                                    r.calls \o <<"close">>)
             ELSE IF r.exc = "none"
             THEN /\ client' = "open"
                  /\ shell_read("open", age(_shell))
                  /\ ret' = Outcome([Returned(op) EXCEPT
                                        !.n = IF _shell = None THEN 1 ELSE 0,
                                        !.resize = resize(_shell')],
                                    r.calls)
             ELSE /\ client' = r.client
                  /\ _shell' = age(_shell)
                  /\ UNCHANGED <<width, height, pty>>
                  /\ ret' = Outcome(
                        IF r.exc = "KeyFile"
                        THEN Raised(op, "SSHClientException",
                                    "Given key file does not exist.")
                        ELSE Raised(op, r.exc, ""), r.calls)
    /\ Forgotten(in_buffer)
    /\ UNCHANGED <<filesystem, tunnel, _started_commands, pc, frame, now, in_buffer,
                   reader>>

\* SSHClient.login, with _login ending as r.
login(r) == LoggedIn("login", "Authentication failed for user 'user'.", r)

\* SSHClient.login_with_public_key, with _login_with_public_key ending as r.
login_with_public_key(r) ==
    LoggedIn("login_with_public_key",
             "Login with public key failed for user \"get_banner\"'user'.", r)

\* SSHClient.get_banner_without_login, called on the class: a client of its
\* own connects as "bad-username"; c: how that connect ends.
get_banner_without_login(c) ==
    /\ pc = "idle"
    /\ ret' = [(IF c \in {"ok", "auth"}
                THEN Returned("get_banner_without_login")
                ELSE Raised("get_banner_without_login", "SSHClientException",
                            "Unable to connect to port"))
               EXCEPT !.calls = <<"connect">>,
                      !.out = IF c = "auth" THEN <<"banner">> ELSE <<>>]
    /\ Forgotten(in_buffer)
    /\ UNCHANGED <<session, _started_commands, chan, pc, frame, now,
                   in_buffer, reader>>

\* A close that fails when there is no transport to close.
close_needs_transport ==
    /\ pc = "idle"
    /\ ret' = IF client = "none"
              THEN Raised("close", "AttributeError", "")
              ELSE Returned("close")
    /\ tunnel' = IF tunnel = None THEN None ELSE "closed"
    /\ _sftp_client' = None
    /\ _scp_transfer_client' = None
    /\ _scp_all_client' = None
    /\ _shell' = None
    /\ pty' = None
    /\ client' = "none"
    /\ chan' = TransportClosed(chan)
    /\ in_buffer' = <<>>
    /\ Forgotten(<<>>)
    /\ UNCHANGED <<filesystem, config, width, height, _started_commands, pc, frame, now,
                   reader>>

\* A close that forgets one of the cached transfer clients.
close_keeps_scp_all_client ==
    /\ pc = "idle"
    /\ tunnel' = IF tunnel = None THEN None ELSE "closed"
    /\ _sftp_client' = None
    /\ _scp_transfer_client' = None
    /\ _shell' = None
    /\ pty' = None
    /\ client' = "none"
    /\ chan' = TransportClosed(chan)
    /\ ret' = Returned("close")
    /\ in_buffer' = <<>>
    /\ Forgotten(<<>>)
    /\ UNCHANGED <<filesystem, _scp_all_client, config, width, height, _started_commands,
                   pc, frame, now, reader>>

\* SSHClient.close
close ==
    /\ pc = "idle"
    /\ tunnel' = IF tunnel = None THEN None ELSE "closed"
    /\ _sftp_client' = None
    /\ _scp_transfer_client' = None
    /\ _scp_all_client' = None
    /\ _shell' = None
    /\ pty' = None
    /\ client' = "none"
    /\ chan' = TransportClosed(chan)
    /\ ret' = [Returned("close") EXCEPT
                  !.n = Cardinality(
                      {i \in 1..4 : <<_sftp_client, _scp_transfer_client,
                                      _scp_all_client, _shell>>[i] # None}),
                  !.again = (ret.op = "close")]
    /\ in_buffer' = <<>>
    /\ Forgotten(<<>>)
    /\ UNCHANGED <<filesystem, config, width, height, _started_commands, pc, frame, now,
                   reader>>

\* ------------------------------------------------------ sub-resources
\* SFTPClient.__init__ (and SCPTransferClient.__init__, which calls it):
\* open_sftp raises unless the connection is open.
_create_sftp_client(cl) == IF cl = "open" THEN "cur" ELSE None

\* SCPClient.__init__ only stores get_transport(), whatever it is.
_create_scp_all_client(cl) == IF cl = "none" THEN "unbound" ELSE "cur"

\* A property read that creates its object anew every time.
cached_anew(v, created) == created

\* A cached-property read: the object cached before, else the one created now.
cached(v, created) == IF v = None THEN created ELSE v

\* What the read of a property that had v cached ends with, w being cached
\* after it: it raises when nothing could be created.
Accessed(op, v, w) ==
    IF w = None THEN Raised(op, "Exception", "")
    ELSE [Returned(op) EXCEPT !.n = IF v = None THEN 1 ELSE 0]

\* property sftp_client
sftp_client ==
    /\ pc = "idle"
    /\ _sftp_client' = cached(_sftp_client, _create_sftp_client(client))
    /\ ret' = Accessed("sftp_client", _sftp_client, _sftp_client')
    /\ UNCHANGED <<filesystem, client, tunnel, _scp_transfer_client, _scp_all_client,
                   _shell, terminal, _started_commands, chan, pc, frame, now,
                   in_buffer, reader, history>>

\* property scp_transfer_client
scp_transfer_client ==
    /\ pc = "idle"
    /\ _scp_transfer_client' =
          cached(_scp_transfer_client, _create_sftp_client(client))
    /\ ret' = Accessed("scp_transfer_client", _scp_transfer_client, _scp_transfer_client')
    /\ UNCHANGED <<filesystem, client, tunnel, _sftp_client, _scp_all_client, _shell,
                   terminal, _started_commands, chan, pc, frame, now, in_buffer, reader,
                   history>>

\* property scp_all_client
scp_all_client ==
    /\ pc = "idle"
    /\ _scp_all_client' =
          cached(_scp_all_client, _create_scp_all_client(client))
    /\ ret' = Accessed("scp_all_client", _scp_all_client, _scp_all_client')
    /\ UNCHANGED <<filesystem, client, tunnel, _sftp_client, _scp_transfer_client, _shell,
                   terminal, _started_commands, chan, pc, frame, now, in_buffer, reader,
                   history>>

\* property shell, read by itself
shell_property ==
    /\ pc = "idle"
    /\ shell_read(client, _shell)
    /\ ret' = IF _shell' = None
              THEN Raised("shell", "RuntimeError", "Cannot open session")
              ELSE [Returned("shell") EXCEPT
                       !.n = IF _shell = None THEN 1 ELSE 0,
                       !.resize = resize(_shell')]
    /\ UNCHANGED <<filesystem, client, tunnel, _sftp_client, _scp_transfer_client,
                   _scp_all_client, config, _started_commands, chan, pc, frame, now,
                   in_buffer, reader, history>>

\* Configuration.update(width=w, height=h) on the Session's configuration.
update(w, h) ==
    /\ pc = "idle"
    /\ config' = [config EXCEPT !.width = w, !.height = h]
    /\ ret' = Returned("update")
    /\ UNCHANGED <<filesystem, client, tunnel, _sftp_client, _scp_transfer_client,
                   _scp_all_client, _shell, width, height, pty,
                   _started_commands, chan, pc, frame, now, in_buffer,
                   reader, history>>

\* SFTPClient.create_local_ssh_tunnel: reads self.client, which an SFTPClient
\* does not have, before any tunnel is made.
create_local_ssh_tunnel ==
    /\ pc = "idle"
    /\ _sftp_client # None
    /\ ret' = Raised("create_local_ssh_tunnel", "AttributeError", "")
    /\ UNCHANGED <<session, _started_commands, chan, pc, frame, now,
                   in_buffer, reader, history>>

\* ------------------------------------------------------ start_command
\* A channel that may be in use already.
NewChan_lowest == CHOOSE c \in ChanIds : \A d \in ChanIds : c <= d

\* Channels are numbered in the order they are opened.
NewChan == CHOOSE c \in ChanIds :
               /\ chan[c].st = "free"
               /\ \A d \in ChanIds : d < c => chan[d].st # "free"

\* SSHClient.start_command / _start_command / RemoteCommand.run_in;
\* o: "ok", "open_session" (the channel cannot be opened) or "exec" (the
\* command cannot be launched on the opened channel).
start_command(o) ==
    /\ pc = "idle"
    /\ \E c \in ChanIds : chan[c].st = "free"
    /\ IF client = "none"
       THEN /\ ret' = Raised("start_command", "AssertionError",
                             "Connection not open")
            /\ UNCHANGED <<_started_commands, chan>>
       ELSE IF client = "unauth" \/ o = "open_session"
       THEN /\ ret' = Raised("start_command", "SSHException", "")
            /\ UNCHANGED <<_started_commands, chan>>
       ELSE LET c == NewChan
            IN IF o = "exec"
               THEN /\ chan' = [chan EXCEPT ![c].st = "leaked"]
                    /\ ret' = Raised("start_command", "SSHException", "")
                    /\ UNCHANGED _started_commands
               ELSE /\ chan' = [chan EXCEPT ![c].st = "open", ![c].live = TRUE]
                    /\ _started_commands' = Append(_started_commands, c)
                    /\ ret' = Returned("start_command")
    /\ UNCHANGED <<session, pc, frame, now, in_buffer, reader, history>>

\* ------------------------------------------------- read_command_output
\* A stack read from the wrong end.
pop_first(s) == [cmd |-> Head(s), rest |-> Tail(s)]

\* list.pop() of the stack: the command it returns and the stack it leaves.
pop(s) == [cmd |-> Last(s), rest |-> Front(s)]

\* An IndexError reported one command too early.
pop_raises_early(s) == Len(s) <= 1

\* list.pop() raises IndexError, which read_command_output reports.
pop_raises(s) == s = <<>>

\* "Timed out in %s seconds" % int(timeout): whole seconds of t ticks.
TimedOutSeconds(t) == t \div TicksPerSecond

\* Only the chunk read last.
joined_last(chunks) == IF chunks = <<>> THEN <<>> ELSE Last(chunks)

\* b"".join(chunks)
RECURSIVE joined(_)
joined(chunks) ==
    IF chunks = <<>> THEN <<>> ELSE Head(chunks) \o joined(Tail(chunks))

IdleFrame ==
    /\ cur' = 0
    /\ timeout' = 0
    /\ end_time' = 0
    /\ status_at' = NotYet
    /\ entry' = "none"
    /\ stdouts' = <<>>
    /\ stderrs' = <<>>
    /\ now' = 0

\* SSHClient.read_command_output up to the first test of the drain loop of
\* RemoteCommand._receive_stdout_and_stderr; t: the timeout in ticks (0: none).
read_command_output(t) ==
    /\ pc = "idle"
    /\ IF pop_raises(_started_commands)
       THEN /\ ret' = Raised("read_command_output", "SSHClientException",
                             "No started commands to read output from.")
            /\ UNCHANGED <<_started_commands, chan, pc, frame, now>>
       ELSE LET c == pop(_started_commands).cmd
            IN /\ _started_commands' = pop(_started_commands).rest
               /\ chan' = [chan EXCEPT ![c].nread = @ + 1]
               /\ cur' = c
               /\ timeout' = t
               /\ end_time' = 0
               /\ status_at' = IF chan[c].status THEN 0 ELSE NotYet
               /\ entry' = "read_command_output"
               /\ stdouts' = <<>>
               /\ stderrs' = <<>>
               /\ now' = 0
               /\ pc' = "receive"
               /\ ret' = NoRet
    /\ UNCHANGED <<session, in_buffer, reader, history>>

\* SSHClient.execute_command: start_command, then read_command_output, which
\* pops what start_command has pushed, up to the first test of the drain
\* loop; o as for start_command, t: the timeout in ticks (0: none).
execute_command(o, t) ==
    /\ pc = "idle"
    /\ \E c \in ChanIds : chan[c].st = "free"
    /\ IF client = "none"
       THEN /\ ret' = Raised("execute_command", "AssertionError",
                             "Connection not open")
            /\ UNCHANGED <<_started_commands, chan, pc, frame, now>>
       ELSE IF client = "unauth" \/ o = "open_session"
       THEN /\ ret' = Raised("execute_command", "SSHException", "")
            /\ UNCHANGED <<_started_commands, chan, pc, frame, now>>
       ELSE IF o = "exec"
       THEN /\ chan' = [chan EXCEPT ![NewChan].st = "leaked"]
            /\ ret' = Raised("execute_command", "SSHException", "")
            /\ UNCHANGED <<_started_commands, pc, frame, now>>
       ELSE LET pushed == Append(_started_commands, NewChan)
                c == pop(pushed).cmd
            IN /\ _started_commands' = pop(pushed).rest
               /\ chan' = [[chan EXCEPT ![NewChan].st = "open",
                                        ![NewChan].live = TRUE]
                              EXCEPT ![c].nread = @ + 1]
               /\ cur' = c
               /\ timeout' = t
               /\ end_time' = 0
               /\ status_at' = IF chan[c].status THEN 0 ELSE NotYet
               /\ entry' = "execute_command"
               /\ stdouts' = <<>>
               /\ stderrs' = <<>>
               /\ now' = 0
               /\ pc' = "receive"
               /\ ret' = NoRet
    /\ UNCHANGED <<session, in_buffer, reader, history>>

\* RemoteCommand._output_logging, as the polling loops call it: that of
\* _receive_stdout_and_stderr when no timeout is given, and that of
\* _flush_stdout_and_stderr until status_event is set or the time is over.
\* What the channel holds of a stream is read as one chunk.
_output_logging ==
    /\ \/ pc = "receive" /\ _shell_open(cur) /\ timeout = 0
       \/ pc = "flush" /\ now < end_time /\ ~chan[cur].status
    /\ chan[cur].out # <<>> \/ chan[cur].err # <<>>
    /\ stdouts' = IF chan[cur].out # <<>> THEN Append(stdouts, chan[cur].out)
                  ELSE stdouts
    /\ stderrs' = IF chan[cur].err # <<>> THEN Append(stderrs, chan[cur].err)
                  ELSE stderrs
    /\ chan' = [chan EXCEPT ![cur].out = <<>>, ![cur].err = <<>>]
    /\ UNCHANGED <<session, _started_commands, pc, cur, timeout, end_time,
                   status_at, entry, now, ret, in_buffer, reader, history>>

\* _receive_stdout_and_stderr: one test of `while self._shell_open()`.  With
\* no timeout, or with the exit status already in, an open channel is polled
\* (flush, sleep) until the remote side ends it.
_receive_stdout_and_stderr ==
    /\ pc = "receive"
    /\ ~Blocked
    /\ IF _shell_open(cur)
       THEN /\ end_time' = now + timeout
            /\ pc' = "flush"
            /\ UNCHANGED <<chan, stdouts, stderrs>>
       ELSE /\ end_time' = end_time
            /\ pc' = "recv_exit_status"
            /\ stdouts' = Append(stdouts, chan[cur].out)
            /\ stderrs' = Append(stderrs, chan[cur].err)
            /\ chan' = [chan EXCEPT ![cur].out = <<>>, ![cur].err = <<>>]
    /\ UNCHANGED <<session, _started_commands, cur, timeout, status_at, entry,
                   now, ret, in_buffer, reader, history>>

\* _flush_stdout_and_stderr with a timeout: the wait for status_event ends
\* with the event set or with the deadline passed.
_flush_stdout_and_stderr ==
    /\ pc = "flush"
    /\ ~Blocked
    /\ IF ~chan[cur].status
       THEN /\ pc' = "idle"
            /\ ret' = [Raised(entry, "RemoteCommandException",
                                 "Timed out in %s seconds")
                          EXCEPT !.secs = TimedOutSeconds(timeout),
                                 !.t = timeout, !.at = status_at]
            /\ chan' = [chan EXCEPT ![cur] = Dropped(@, "abandoned")]
            /\ IdleFrame
       ELSE /\ pc' = "receive"
            /\ ret' = ret
            /\ UNCHANGED <<chan, frame, now>>
    /\ UNCHANGED <<session, _started_commands, in_buffer, reader, history>>

\* RemoteCommand.read_outputs after the drain: recv_exit_status waits for
\* status_event, then the channel is closed and the outputs are returned.
read_outputs ==
    /\ pc = "recv_exit_status"
    /\ ~Blocked
    /\ chan' = [chan EXCEPT ![cur] =
                    Dropped([@ EXCEPT !.nclose = @ + 1], "closed")]
    /\ pc' = "idle"
    /\ ret' = [Returned(entry)
                  EXCEPT !.t = timeout, !.at = status_at,
                         !.out = <<joined(stdouts), joined(stderrs)>>]
    /\ IdleFrame
    /\ UNCHANGED <<session, _started_commands, in_buffer, reader, history>>

\* ------------------------------------------------- the read-until engine
\* config.get("timeout"), in ticks
SessionTimeout == MaxTimeout

\* config.newline
newline == <<"n">>

CannotOpen == "Cannot open session, you need to establish a connection first."

\* What reading character by character gives of bytes, up to where they end
\* or do not decode.
RECURSIVE Decoded(_)
Decoded(bytes) ==
    IF bytes = <<>> THEN <<>>
    ELSE IF _decode(<<bytes[1]>>).reason = "none"
    THEN <<bytes[1]>> \o Decoded(Tail(bytes))
    ELSE IF Len(bytes) >= 2 /\ _decode(SubSeq(bytes, 1, 2)).reason = "none"
    THEN <<"E">> \o Decoded(Tail(Tail(bytes)))
    ELSE <<>>

Min(S) == CHOOSE x \in S : \A y \in S : x <= y

\* SSHClient._strip_prompt: output[:-length], with the length of the prompt
\* or of the leftmost match of its pattern.
_strip_prompt(c, out) ==
    LET at(i) == {k \in 1..Len(c.expected) :
                    /\ i + Len(c.expected[k]) - 1 <= Len(out)
                    /\ SubSeq(out, i, i + Len(c.expected[k]) - 1) = c.expected[k]}
        first == Min({i \in 1..(Len(out) + 1) : at(i) # {}})
        length == IF c.strip = "span"
                  THEN Len(c.expected[Min(at(first))])
                  ELSE Len(c.expected[1])
    IN IF length = 0 THEN <<>> ELSE SubSeq(out, 1, Len(out) - length)

\* What the call returns of the output that matched.
Result(c, out) == IF c.strip = "no" THEN out ELSE _strip_prompt(c, out)

\* A timeout error built from the output without its last character.
NoMatchFound_before_append(c, t, out) ==
    [Raised(c.op, "SSHClientException",
            "No match found for '%s' in %s\nOutput:\n%s.")
        EXCEPT !.exp = <<c.expected>>, !.t = t, !.out = <<Front(out)>>]

\* A timeout error of write_until_expected that does not name expected.
ExpectedNotFound_unnamed(c, t) ==
    [Raised(c.op, "SSHClientException", "No match found for '%s' in %s.")
        EXCEPT !.t = t]

\* The timeout error of write_until_expected.
ExpectedNotFound(c, t) ==
    [Raised(c.op, "SSHClientException", "No match found for '%s' in %s.")
        EXCEPT !.exp = <<c.expected>>, !.t = t]

\* The timeout error of _read_until and read_until_regexp_with_prefix.
NoMatchFound(c, t, out) ==
    [Raised(c.op, "SSHClientException",
            IF c.op = "read_until_regexp_with_prefix"
            THEN "No match found for '%s' in %s\nOutput:\n%s"
            ELSE "No match found for '%s' in %s\nOutput:\n%s.")
        EXCEPT !.exp = <<c.expected>>, !.t = t, !.out = <<out>>]

\* The shell call ends with r: its locals are gone.
Ended(r) ==
    /\ pc' = "idle"
    /\ ret' = [r EXCEPT !.n = written]
    /\ server_output' = <<>>
    /\ output' = <<>>
    /\ max_time' = 0
    /\ written' = 0
    /\ IdleFrame

\* The shell call goes on at p.
Continued(p) ==
    /\ pc' = p
    /\ UNCHANGED <<ret, max_time, written, frame, now>>

\* _read_until up to its loop, with timeout t (0: none is given, or zero).
_read_until_begin(t) ==
    /\ output' = <<>>
    /\ timeout' = IF t # 0 THEN t ELSE SessionTimeout
    /\ end_time' = now' + timeout'
    /\ pc' = "_read_until"

\* A read-until call c, up to the loop of _read_until; read_char reaches the
\* shell through property shell.
_read_until_call(c) ==
    /\ pc = "idle"
    /\ shell_read(client, _shell)
    /\ IF _shell' = None
       THEN /\ ret' = Raised(c.op, "RuntimeError", CannotOpen)
            /\ Forgotten(in_buffer)
            /\ UNCHANGED <<pc, timeout, end_time, now, output>>
       ELSE /\ call' = c
            /\ slept' = FALSE
            /\ buffered' = matcher(c, Decoded(in_buffer))
            /\ stream' = in_buffer
            /\ now' = 0
            /\ _read_until_begin(0)
            /\ ret' = NoRet
    /\ UNCHANGED <<filesystem, client, tunnel, _sftp_client, _scp_transfer_client,
                   _scp_all_client, config, executor, in_buffer,
                   server_output, max_time, written>>

\* SSHClient.read_until
read_until(expected) ==
    _read_until_call([op |-> "read_until", expected |-> <<expected>>,
                      prefix |-> <<>>, bytes |-> FALSE, strip |-> "no",
                      interval |-> 0])

\* SSHClient.read_until_newline
read_until_newline ==
    _read_until_call([op |-> "read_until_newline", expected |-> <<newline>>,
                      prefix |-> <<>>, bytes |-> FALSE, strip |-> "no",
                      interval |-> 0])

\* SSHClient.read_until_regexp
read_until_regexp(regexp) ==
    _read_until_call([op |-> "read_until_regexp", expected |-> regexp,
                      prefix |-> <<>>, bytes |-> FALSE, strip |-> "no",
                      interval |-> 0])

\* SSHClient.read_until_prompt with config.prompt = prompt: not set (<<>>),
\* a text or, tagged REGEXP:, a pattern.
read_until_prompt(prompt, strip_prompt) ==
    IF prompt.pattern = <<>>
    THEN /\ pc = "idle"
         /\ ret' = Raised("read_until_prompt", "SSHClientException",
                          "Prompt is not set.")
         /\ Forgotten(in_buffer)
         /\ UNCHANGED <<session, executor, pc, timeout, end_time, now,
                        in_buffer, reader>>
    ELSE _read_until_call(
            [op |-> "read_until_prompt", expected |-> prompt.pattern,
             prefix |-> <<>>, bytes |-> FALSE,
             strip |-> IF ~strip_prompt THEN "no"
                       ELSE IF prompt.regexp THEN "span" ELSE "length",
             interval |-> 0])

\* SSHClient.read_until_regexp_with_prefix up to its loop, which is the loop
\* of _read_until with the session timeout (and no sleep between two reads
\* that find nothing).
read_until_regexp_with_prefix(regexp, prefix) ==
    _read_until_call([op |-> "read_until_regexp_with_prefix",
                      expected |-> regexp, prefix |-> prefix, bytes |-> TRUE,
                      strip |-> "no", interval |-> 0])

\* SSHClient.write_until_expected up to its loop; t, interval in ticks.
write_until_expected(expected, t, interval) ==
    /\ pc = "idle"
    /\ call' = [op |-> "write_until_expected", expected |-> <<expected>>,
                prefix |-> <<>>, bytes |-> TRUE, strip |-> "no",
                interval |-> interval]
    /\ slept' = FALSE
    /\ buffered' = FALSE
    /\ stream' = in_buffer
    /\ now' = 0
    /\ max_time' = t
    /\ written' = 0
    /\ pc' = "write_until_expected"
    /\ ret' = NoRet
    /\ UNCHANGED <<session, executor, timeout, end_time, in_buffer,
                   server_output, output>>

\* One test of the loop of write_until_expected: the text is written and
\* _read_until is called with timeout=interval.value.
write_until_expected_loop ==
    /\ pc = "write_until_expected"
    /\ IF now >= max_time
       THEN /\ Ended(ExpectedNotFound(call, max_time))
            /\ UNCHANGED <<_shell, width, height, pty>>
       ELSE /\ shell_read(client, _shell)
            /\ IF _shell' = None
               THEN Ended(Raised("write_until_expected", "RuntimeError",
                                 CannotOpen))
               ELSE /\ written' = written + 1
                    /\ now' = now
                    /\ _read_until_begin(call.interval)
                    /\ UNCHANGED <<ret, max_time, server_output, cur,
                                   status_at, entry, stdouts, stderrs>>
    /\ UNCHANGED <<filesystem, client, tunnel, _sftp_client, _scp_transfer_client,
                   _scp_all_client, config, _started_commands, chan,
                   in_buffer, history>>

\* SSHClient.read_char from the read of a byte that is available, and what
\* _read_until does with the character.
read_char_available ==
    LET bytes == server_output \o read_byte
        char == _decode(bytes)
    IN /\ in_buffer' = Tail(in_buffer)
       /\ IF char.reason = "unexpected end of data"
          THEN /\ server_output' = bytes
               /\ output' = output
               /\ Continued("read_char")
          ELSE IF char.reason # "none"
          THEN Ended(Raised(call.op, "UnicodeDecodeError", char.reason))
          ELSE IF matcher(call, output \o char.text)
          THEN Ended([Returned(call.op) EXCEPT
                         !.out = <<Result(call, output \o char.text)>>])
          ELSE /\ server_output' = <<>>
               /\ output' = output \o char.text
               /\ Continued("_read_until")

\* One test of the loop of _read_until (and of the loop of
\* read_until_regexp_with_prefix), with the call of read_char it makes: with
\* nothing to read, read_char returns no character and the match is tested
\* on the output as it is.
_read_until ==
    /\ pc = "_read_until"
    /\ ~Blocked
    /\ IF now >= end_time
       THEN /\ IF call.op = "write_until_expected"
               THEN /\ output' = <<>>
                    /\ server_output' = server_output
                    /\ Continued("write_until_expected")
               ELSE Ended(NoMatchFound(call, timeout, output))
            /\ UNCHANGED <<in_buffer, slept>>
       ELSE IF in_buffer = <<>>
       THEN /\ slept' = TRUE
            /\ IF matcher(call, output)
               THEN Ended([Returned(call.op) EXCEPT
                              !.out = <<Result(call, output)>>])
               ELSE /\ Continued("_read_until")
                    /\ UNCHANGED <<server_output, output>>
            /\ UNCHANGED in_buffer
       ELSE /\ read_char_available
            /\ slept' = slept
    /\ UNCHANGED <<session, _started_commands, chan, call, buffered, stream>>

\* The loop of read_char, holding the beginning of a character.
read_char ==
    /\ pc = "read_char"
    /\ ~Blocked
    /\ read_char_available
    /\ UNCHANGED <<session, _started_commands, chan, history>>

\* ------------------------------------------------------ the remote side
\* A channel some command still holds unread, or the one being read.
Observed(c) == chan[c].nread = 0 \/ (pc # "idle" /\ c = cur)

Completed(c) ==
    status_at' = IF pc # "idle" /\ c = cur /\ ~chan[c].status
                 THEN now ELSE status_at

\* The exit status of the command arrives: status_event is set.
exit_status(c) ==
    /\ EnvEnabled
    /\ Observed(c)
    /\ chan[c].st = "open" /\ ~chan[c].status
    /\ chan' = [chan EXCEPT ![c].status = TRUE]
    /\ Completed(c)
    /\ ret' = NoRet
    /\ UNCHANGED <<session, _started_commands, pc, cur, timeout, end_time, now,
                   entry, stdouts, stderrs, in_buffer, reader, history>>

\* The server sends EOF on the channel.
eof_received(c) ==
    /\ EnvEnabled
    /\ Observed(c)
    /\ chan[c].st = "open" /\ ~chan[c].eof
    /\ chan' = [chan EXCEPT ![c].eof = TRUE]
    /\ ret' = NoRet
    /\ UNCHANGED <<session, _started_commands, pc, frame, now, in_buffer,
                   reader, history>>

\* The server closes the channel, which also sets status_event.
channel_closed(c) ==
    /\ EnvEnabled
    /\ Observed(c)
    /\ chan[c].st = "open"
    /\ chan' = [chan EXCEPT ![c].st = "closed", ![c].status = TRUE,
                            ![c].live = FALSE]
    /\ Completed(c)
    /\ ret' = NoRet
    /\ UNCHANGED <<session, _started_commands, pc, cur, timeout, end_time, now,
                   entry, stdouts, stderrs, in_buffer, reader, history>>

\* The command writes a byte to its stdout, or to its stderr, and the
\* channel receives it: the k-th byte of stdout is k, that of stderr is -k.
stdout_received(c) ==
    /\ EnvEnabled
    /\ Observed(c)
    /\ chan[c].st = "open" /\ ~chan[c].eof
    /\ chan[c].nout < MaxOutput
    /\ chan' = [chan EXCEPT ![c].nout = @ + 1,
                            ![c].out = Append(@, chan[c].nout + 1)]
    /\ ret' = NoRet
    /\ UNCHANGED <<session, _started_commands, pc, frame, now, in_buffer,
                   reader, history>>
stderr_received(c) ==
    /\ EnvEnabled
    /\ Observed(c)
    /\ chan[c].st = "open" /\ ~chan[c].eof
    /\ chan[c].nerr < MaxOutput
    /\ chan' = [chan EXCEPT ![c].nerr = @ + 1,
                            ![c].err = Append(@, 0 - (chan[c].nerr + 1))]
    /\ ret' = NoRet
    /\ UNCHANGED <<session, _started_commands, pc, frame, now, in_buffer,
                   reader, history>>

\* The shell's channel receives a byte.
data_received(b) ==
    /\ EnvEnabled
    /\ _shell # None
    /\ Len(IF pc = "idle" THEN in_buffer ELSE stream) < MaxBytes
    /\ in_buffer' = Append(in_buffer, b)
    /\ IF pc = "idle"
       THEN /\ ret' = NoRet
            /\ Forgotten(Append(in_buffer, b))
       ELSE /\ slept' = TRUE
            /\ stream' = Append(stream, b)
            /\ UNCHANGED <<ret, call, buffered>>
    /\ UNCHANGED <<session, executor, pc, timeout, end_time, now, reader>>

\* The deadline of the wait the running call is in.
Deadline == IF pc \in {"_read_until", "read_char"} THEN end_time ELSE timeout

\* Time passes while a call with a timeout waits; the clock is followed until
\* it has passed the deadline of the wait.
Tick ==
    /\ Blocked
    /\ timeout > 0
    /\ now <= Deadline
    /\ now' = now + 1
    /\ slept' = (slept \/ pc \in {"_read_until", "read_char"})
    /\ UNCHANGED <<session, _started_commands, chan, pc, frame, ret, in_buffer,
                   reader, call, buffered, stream>>

\* ------------------------------------------------------ file transfer
\* A path is the sequence of its separators and names; one name is one
\* element ("*" is the pattern of every name).
Sep == "/"

\* The names of the path, which say where it leads ("." leads nowhere).
Names(p) == SelectSeq(p, LAMBDA t : t # Sep /\ t # ".")

\* An entry of a file system: a directory, or a regular file and its bytes.
Dir == [dir |-> TRUE, data |-> <<>>]
File(data) == [dir |-> FALSE, data |-> data]

\* The files on the local machine, by the names that lead to them from the
\* working directory, and those on the remote host, from its root; the home
\* directory of the user on the remote host is /home.
LocalFiles ==
    (<<>> :> Dir) @@ (<<"l">> :> Dir) @@ (<<"l", "a">> :> File(<<"x">>))
    @@ (<<"l", "e">> :> Dir) @@ (<<"l", "s">> :> Dir)
    @@ (<<"l", "s", "b">> :> File(<<"y">>))
    @@ (<<"l", "s", "c">> :> File(<<"z">>))
RemoteFiles ==
    (<<>> :> Dir) @@ (<<"home">> :> Dir) @@ (<<"home", "r">> :> Dir)
    @@ (<<"home", "r", "a">> :> File(<<"x">>))
    @@ (<<"home", "r", "e">> :> Dir) @@ (<<"home", "r", "s">> :> Dir)
    @@ (<<"home", "r", "s", "b">> :> File(<<"y">>))
    @@ (<<"home", "r", "s", "c">> :> File(<<"z">>))

\* The order in which a directory lists its entries.
Listing == <<"a", "b", "c", "d", "e", "home", "l", "r", "s", "t">>

\* os.listdir, SFTPClient._get_item_names: the names in directory d.
listdir(fs, d) == SelectSeq(Listing, LAMBDA n : Append(d, n) \in DOMAIN fs)

exists(fs, p) == Names(p) \in DOMAIN fs
isdir(fs, p) == exists(fs, p) /\ fs[Names(p)].dir
isfile(fs, p) == exists(fs, p) /\ ~fs[Names(p)].dir

\* The position of the last separator of p (0: none).
LastSep(p) ==
    IF \E i \in 1..Len(p) : p[i] = Sep
    THEN CHOOSE i \in 1..Len(p) :
            p[i] = Sep /\ \A j \in (i + 1)..Len(p) : p[j] # Sep
    ELSE 0

\* p.rsplit(path_separator, 1)
rsplit(p) ==
    IF LastSep(p) = 0 THEN <<p>>
    ELSE <<SubSeq(p, 1, LastSep(p) - 1), SubSeq(p, LastSep(p) + 1, Len(p))>>

\* os.path.basename
basename(p) == SubSeq(p, LastSep(p) + 1, Len(p))

\* p.rstrip(separator)
RECURSIVE rstrip(_)
rstrip(p) == IF p # <<>> /\ Last(p) = Sep THEN rstrip(Front(p)) ELSE p

\* os.path.dirname: the head without its trailing separators, unless it is
\* made of separators only.
dirname(p) ==
    LET head == SubSeq(p, 1, LastSep(p))
    IN IF rstrip(head) = <<>> THEN head ELSE rstrip(head)

\* os.path.join of two paths
os_path_join(a, b) ==
    IF b # <<>> /\ b[1] = Sep THEN b
    ELSE IF a = <<>> \/ Last(a) = Sep THEN a \o b
    ELSE a \o <<Sep>> \o b

\* path_separator.join([a, b])
join(a, b) == a \o <<Sep>> \o b

\* The absolute path that leads through names.
RECURSIVE PathOf(_)
PathOf(names) ==
    IF names = <<>> THEN <<>>
    ELSE <<Sep, Head(names)>> \o PathOf(Tail(names))

\* os.path.abspath, the working directory being the root.
abspath(p) == IF Names(p) = <<>> THEN <<Sep>> ELSE PathOf(Names(p))

\* fnmatchcase of a name against the pattern of a path's last component.
fnmatchcase(name, pattern) == pattern = <<"*">> \/ pattern = <<name>>

\* glob.glob: the paths that match, the last component being a name or "*".
glob(fs, pattern) ==
    IF basename(pattern) # <<"*">>
    THEN IF exists(fs, pattern) THEN <<pattern>> ELSE <<>>
    ELSE LET d == dirname(pattern)
             names == IF isdir(fs, d) THEN listdir(fs, Names(d)) ELSE <<>>
         IN [i \in 1..Len(names) |-> os_path_join(d, <<names[i]>>)]

\* SFTPClient._homedir, and where a remote path leads: from the home
\* directory unless it is absolute.
_homedir == <<Sep, "home">>
Remote(p) == IF p # <<>> /\ p[1] = Sep THEN p ELSE _homedir \o <<Sep>> \o p

\* What a transfer call works on and has come to: the two file systems, the
\* handles open, the copies made, the exception raised and the value returned.
World ==
    [l |-> local, r |-> remote, open |-> open_files, done |-> <<>>,
     exc |-> "none", msg |-> "", out |-> <<>>]
raise(w, exc, msg) == [w EXCEPT !.exc = exc, !.msg = msg]

\* os.makedirs and the mkdir calls of _create_missing_remote_path: every
\* missing directory on the way to names, which no file may be in the way of.
Prefixes(names) == {SubSeq(names, 1, k) : k \in 0..Len(names)}
InTheWay(fs, names) ==
    \E q \in Prefixes(names) : q # names /\ q \in DOMAIN fs /\ ~fs[q].dir
makedirs(fs, names) ==
    [q \in DOMAIN fs \cup Prefixes(names) |->
        IF q \in DOMAIN fs THEN fs[q] ELSE Dir]

\* SFTPClient._create_missing_remote_path
_create_missing_remote_path(w, path) ==
    IF InTheWay(w.r, Names(Remote(path))) THEN raise(w, "IOError", "mkdir")
    ELSE [w EXCEPT !.r = makedirs(w.r, Names(Remote(path)))]

\* SFTPClient._get_put_file_sources, SCPClient._get_put_file_sources up to
\* its glob.glob
_get_put_file_sources(w, source) ==
    IF exists(w.l, source) THEN <<source>> ELSE glob(w.l, source)

\* SFTPClient._parse_path_elements
_parse_path_elements(w, destination) ==
    LET dest == IF destination[1] = Sep THEN destination
                ELSE join(_homedir, destination)
    IN IF isdir(w.r, dest) THEN <<dest, <<>>>> ELSE rsplit(dest)

\* Destinations that are all named after the first source.
_get_put_file_destinations_first(w, sources, destination) ==
    LET dest == IF destination = <<".">> THEN _homedir \o <<Sep>>
                ELSE destination
        parsed == _parse_path_elements(w, dest)
    IN IF Len(sources) > 1 /\ Last(dest) # Sep /\ ~isdir(w.r, Remote(dest))
       THEN [exc |-> "ValueError", files |-> <<>>, dir_path |-> <<>>]
       ELSE [exc |-> "none",
             files |-> IF parsed[2] # <<>> THEN <<join(parsed[1], parsed[2])>>
                       ELSE [i \in 1..Len(sources) |->
                               join(parsed[1], basename(sources[1]))],
             dir_path |-> parsed[1]]

\* SFTPClient._get_put_file_destinations: the remote paths and the remote
\* directory, or the ValueError of several sources for one file.
_get_put_file_destinations(w, sources, destination) ==
    LET dest == IF destination = <<".">> THEN _homedir \o <<Sep>>
                ELSE destination
        parsed == _parse_path_elements(w, dest)
    IN IF Len(sources) > 1 /\ Last(dest) # Sep /\ ~isdir(w.r, Remote(dest))
       THEN [exc |-> "ValueError", files |-> <<>>, dir_path |-> <<>>]
       ELSE [exc |-> "none",
             files |-> IF parsed[2] # <<>> THEN <<join(parsed[1], parsed[2])>>
                       ELSE [i \in 1..Len(sources) |->
                               join(parsed[1], basename(sources[i]))],
             dir_path |-> parsed[1]]

\* zip of two lists
zip(a, b) ==
    [i \in 1..(IF Len(a) < Len(b) THEN Len(a) ELSE Len(b)) |-> <<a[i], b[i]>>]

\* The bytes of a file: carriage return, line feed and any other.
CR == "CR"
LF == "LF"
FileBytes == {CR, LF, "x"}

\* {"CRLF": "\r\n", "LF": "\n"}.get(newline.upper(), None) of put_file
newline_of(eol) ==
    IF eol = "CRLF" THEN <<CR, LF>>
    ELSE IF eol = "LF" THEN <<LF>> ELSE <<>>

\* Reads that give up at an end of file nearer than a whole chunk.
RECURSIVE chunks_whole(_)
chunks_whole(data) ==
    IF Len(data) < ChunkSize THEN <<>>
    ELSE <<SubSeq(data, 1, ChunkSize)>>
            \o chunks_whole(SubSeq(data, ChunkSize + 1, Len(data)))

\* The successive results of local_file.read(4096), until none is left.
RECURSIVE chunks(_)
chunks(data) ==
    IF Len(data) <= ChunkSize THEN IF data = <<>> THEN <<>> ELSE <<data>>
    ELSE <<SubSeq(data, 1, ChunkSize)>>
            \o chunks(SubSeq(data, ChunkSize + 1, Len(data)))

\* re.sub(rb"(\r\n|\r|\n)", nl, data)
RECURSIVE sub(_, _)
sub(nl, data) ==
    IF data = <<>> THEN <<>>
    ELSE IF Len(data) >= 2 /\ data[1] = CR /\ data[2] = LF
    THEN nl \o sub(nl, Tail(Tail(data)))
    ELSE IF data[1] \in {CR, LF} THEN nl \o sub(nl, Tail(data))
    ELSE <<data[1]>> \o sub(nl, Tail(data))

\* The chunks as _put_file writes them, one after the other.
RECURSIVE written_of(_, _)
written_of(nl, cs) ==
    IF cs = <<>> THEN <<>>
    ELSE (IF nl # <<>> THEN sub(nl, Head(cs)) ELSE Head(cs))
            \o written_of(nl, Tail(cs))

Handle(side, names) == [side |-> side, path |-> names]

\* fs with a regular file of these bytes at names
with_file(fs, names, data) ==
    [q \in DOMAIN fs \cup {names} |-> IF q = names THEN File(data) ELSE fs[q]]

\* SFTPClient._create_remote_file: the remote file is opened for writing,
\* which creates or empties it and needs its directory.
_create_remote_file(w, destination) ==
    LET target == Names(Remote(destination))
    IN IF \/ target = <<>>
          \/ ~(Front(target) \in DOMAIN w.r /\ w.r[Front(target)].dir)
          \/ (target \in DOMAIN w.r /\ w.r[target].dir)
       THEN raise(w, "IOError", "file")
       ELSE [w EXCEPT !.r = with_file(w.r, target, <<>>),
                      !.open = @ \cup {Handle("remote", target)}]

\* No failure of the local or the remote file during the copy.
NoFault == [at |-> "none", n |-> 0]

\* SFTPClient._put_file up to where its with statement is left: the remote
\* file is created, the local file opened, and chunk after chunk is read,
\* translated and written.  eol: the newline argument; fault: the read, the translation or the write of
\* chunk n raises (the read that finds the end of the file is one more).
_put_file_body(w, source, destination, eol, fault) ==
    LET src == Names(source)
        target == Names(Remote(destination))
        made == _create_remote_file(w, destination)
        cs == chunks(made.l[src].data)
        nl == newline_of(eol)
        faulted ==
            /\ fault.at \in {"read", "write"} \/ (fault.at = "sub" /\ nl # <<>>)
            /\ fault.n <= Len(cs) + (IF fault.at = "read" THEN 1 ELSE 0)
        count == IF faulted THEN fault.n - 1 ELSE Len(cs)
        copied == [made EXCEPT
                      !.r = with_file(made.r, target,
                                      written_of(nl, SubSeq(cs, 1, count))),
                      !.open = @ \cup {Handle("local", src)}]
    IN IF made.exc # "none" THEN made
       ELSE IF ~isfile(made.l, source)
       THEN raise(made, IF exists(made.l, source) THEN "IsADirectoryError"
                        ELSE "FileNotFoundError", "open")
       ELSE IF faulted
       THEN raise(copied, IF fault.at = "sub" THEN "LookupError"
                          ELSE "IOError", fault.at)
       ELSE [copied EXCEPT !.done = Append(@, <<source, destination>>)]

\* A _put_file that closes the local file after the loop, like the remote.
_put_file_closing_after(w, source, destination, eol, fault) ==
    LET left == _put_file_body(w, source, destination, eol, fault)
    IN IF left.exc # "none" THEN left
       ELSE [left EXCEPT
                !.open = @ \ {Handle("local", Names(source)),
                              Handle("remote", Names(Remote(destination)))}]

\* SFTPClient._put_file: the with statement closes the local file however
\* it is left; the remote file is closed after the loop only.
_put_file(w, source, destination, eol, fault) ==
    LET left == _put_file_body(w, source, destination, eol, fault)
        closed == [left EXCEPT !.open = @ \ {Handle("local", Names(source))}]
    IN IF left.exc # "none" THEN closed
       ELSE [closed EXCEPT
                !.open = @ \ {Handle("remote", Names(Remote(destination)))}]

\* SCPTransferClient._put_file: the remote file is created, then scp.put
\* copies the bytes as they are; the handle of the created file is dropped.
scp_transfer_put_file(w, source, destination) ==
    LET made == _create_remote_file(w, destination)
        target == Names(Remote(destination))
    IN IF made.exc # "none" THEN made
       ELSE IF ~isfile(made.l, source)
       THEN raise([made EXCEPT !.open = w.open], "SCPException", "put")
       ELSE [made EXCEPT
                !.r = with_file(made.r, target, made.l[Names(source)].data),
                !.open = w.open,
                !.done = Append(@, <<source, destination>>)]

\* The loop of put_file over its pairs, which an exception ends; hybrid: the
\* client is the SCPTransferClient.
RECURSIVE put_each(_, _, _, _, _)
put_each(w, pairs, eol, fault, hybrid) ==
    IF pairs = <<>> \/ w.exc # "none" THEN w
    ELSE put_each(IF hybrid
                  THEN scp_transfer_put_file(w, pairs[1][1], pairs[1][2])
                  ELSE _put_file(w, pairs[1][1], pairs[1][2], eol, fault),
                  Tail(pairs), eol, fault, hybrid)

NoSourceFiles == "There are no source files matching '%s'."
OneDestinationFile ==
    "It is not possible to copy multiple source files to one destination file."

\* A put_file that makes the remote directory before it looks at its sources.
sftp_put_file_mkdir_first(w, source, destination, eol, fault, hybrid) ==
    LET sources == _get_put_file_sources(w, source)
        to == _get_put_file_destinations(w, <<source>>, destination)
        made == _create_missing_remote_path(w, to.dir_path)
        dest == _get_put_file_destinations(w, sources, destination)
        pairs == zip(sources, dest.files)
        put == put_each(made, pairs, eol, fault, hybrid)
    IN IF made.exc # "none" THEN made
       ELSE IF sources = <<>>
       THEN raise(made, "SFTPClientException", NoSourceFiles)
       ELSE IF dest.exc # "none"
       THEN raise(made, "ValueError", OneDestinationFile)
       ELSE IF put.exc # "none" THEN put
       ELSE [put EXCEPT !.out = <<pairs>>]

\* SFTPClient.put_file, which SCPTransferClient inherits
sftp_put_file(w, source, destination, eol, fault, hybrid) ==
    LET sources == _get_put_file_sources(w, source)
        dest == _get_put_file_destinations(w, sources, destination)
        made == _create_missing_remote_path(w, dest.dir_path)
        pairs == zip(sources, dest.files)
        put == put_each(made, pairs, eol, fault, hybrid)
    IN IF sources = <<>> THEN raise(w, "SFTPClientException", NoSourceFiles)
       ELSE IF dest.exc # "none" THEN raise(w, "ValueError", OneDestinationFile)
       ELSE IF put.exc # "none" THEN put
       ELSE [put EXCEPT !.out = <<pairs>>]

\* scp.put of one local file: into remote_path when that is a directory,
\* else as remote_path, whose directory must exist.
scp_put(w, source, remote_path) ==
    LET to == Names(Remote(remote_path))
        target == IF isdir(w.r, Remote(remote_path))
                  THEN to \o Names(basename(source)) ELSE to
    IN IF \/ ~isfile(w.l, source)
          \/ target = <<>>
          \/ ~(Front(target) \in DOMAIN w.r /\ w.r[Front(target)].dir)
          \/ (target \in DOMAIN w.r /\ w.r[target].dir)
          \/ (Last(remote_path) = Sep /\ ~isdir(w.r, Remote(remote_path)))
       THEN raise(w, "SCPException", "put")
       ELSE [w EXCEPT
                !.r = with_file(w.r, target, w.l[Names(source)].data),
                !.done = Append(@, <<source, PathOf(target)>>)]

\* SCPClient.put_file: glob.glob does not take the Path that
\* _get_put_file_sources gives it, so a source that does not exist is a
\* TypeError; nothing is returned.
scp_put_file(w, source, destination) ==
    IF ~exists(w.l, source) THEN raise(w, "TypeError", "glob")
    ELSE scp_put(w, source, destination)

\* A transfer call op of the Session with its arguments args: the client
\* that _create_client selects for scp is read from its property, and the
\* call on it ends as w; a client that is not one of the open connection
\* cannot be used.
Transfer(op, scp, args, w) ==
    /\ pc = "idle"
    /\ _sftp_client' =
          IF scp \in {"ALL", "TRANSFER"} THEN _sftp_client
          ELSE cached(_sftp_client, _create_sftp_client(client))
    /\ _scp_transfer_client' =
          IF scp # "TRANSFER" THEN _scp_transfer_client
          ELSE cached(_scp_transfer_client, _create_sftp_client(client))
    /\ _scp_all_client' =
          IF scp # "ALL" THEN _scp_all_client
          ELSE cached(_scp_all_client, _create_scp_all_client(client))
    /\ LET got == IF scp = "ALL" THEN _scp_all_client'
                  ELSE IF scp = "TRANSFER" THEN _scp_transfer_client'
                  ELSE _sftp_client'
       IN IF got # "cur"
          THEN /\ ret' = [Raised(op, "Exception", "") EXCEPT !.args = <<args>>]
               /\ transferred' = <<>>
               /\ UNCHANGED <<local, remote, open_files>>
          ELSE /\ ret' = [Ret(op, w.exc, w.msg) EXCEPT
                             !.out = w.out, !.args = <<args>>]
               /\ local' = w.l
               /\ remote' = w.r
               /\ open_files' = w.open
               /\ transferred' = w.done
    /\ Forgotten(in_buffer)
    /\ UNCHANGED <<client, tunnel, _shell, terminal, _started_commands, chan,
                   pc, frame, now, in_buffer, reader>>

\* SSHClient.put_file
put_file(source, destination, eol, scp, fault) ==
    Transfer("put_file", scp,
             [source |-> source, destination |-> destination, newline |-> eol,
              scp |-> scp],
             IF scp = "ALL" THEN scp_put_file(World, source, destination)
             ELSE sftp_put_file(World, source, destination, eol, fault,
                                scp = "TRANSFER"))

NoDirectory == "There was no directory matching '%s'."
NoSourcesFound == "There were no source files matching '%s'."
OneLocalFile == "Cannot copy multiple source files to one destination file."

\* SFTPClient._get_get_file_sources: the source when it is a file, else the
\* regular files of its directory that match its last component, by their
\* absolute paths (list_files_in_dir).
_get_get_file_sources(w, source) ==
    LET parts == rsplit(source)
        path == IF Len(parts) = 2 /\ parts[1] # <<>> THEN parts[1]
                ELSE <<".">>
        pattern == Last(parts)
        names == SelectSeq(listdir(w.r, Names(Remote(path))),
                     LAMBDA n :
                        /\ ~w.r[Append(Names(Remote(path)), n)].dir
                        /\ pattern = <<>> \/ fnmatchcase(n, pattern))
    IN IF isfile(w.r, Remote(source))
       THEN [exc |-> "none", files |-> <<source>>]
       ELSE IF ~isdir(w.r, Remote(path))
       THEN [exc |-> "SFTPClientException", files |-> <<>>]
       ELSE [exc |-> "none",
             files |-> [i \in 1..Len(names) |->
                          abspath(Remote(path)) \o <<Sep, names[i]>>]]

\* SFTPClient._get_get_file_destinations after its check of several sources
\* for one file: the local directory is made, and the local paths follow.
_get_get_file_destinations(w, source_files, destination) ==
    LET target_is_dir == Last(destination) = Sep \/ destination = <<".">>
        dest == abspath(destination)
        dirs == IF target_is_dir THEN dest ELSE dirname(dest)
    IN [w |-> IF exists(w.l, dirs) THEN w
              ELSE IF InTheWay(w.l, Names(dirs))
              THEN raise(w, "OSError", "makedirs")
              ELSE [w EXCEPT !.l = makedirs(w.l, Names(dirs))],
        files |-> IF target_is_dir
                  THEN [i \in 1..Len(source_files) |->
                          os_path_join(dest, basename(source_files[i]))]
                  ELSE <<dest>>]

\* SFTPClient._get_file, paramiko's get: the local file is opened for
\* writing, then the remote file is read into it.
_get_file(w, remote_path, local_path) ==
    LET target == Names(local_path)
    IN IF \/ target = <<>>
          \/ ~(Front(target) \in DOMAIN w.l /\ w.l[Front(target)].dir)
          \/ (target \in DOMAIN w.l /\ w.l[target].dir)
       THEN raise(w, "IOError", "open")
       ELSE IF ~isfile(w.r, Remote(remote_path))
       THEN raise([w EXCEPT !.l = with_file(w.l, target, <<>>)],
                  "IOError", "get")
       ELSE [w EXCEPT
                !.l = with_file(w.l, target,
                                w.r[Names(Remote(remote_path))].data),
                !.done = Append(@, <<remote_path, local_path>>)]

\* scp.get of one remote file: into local_path when that is a directory or
\* one of several files is received, else as local_path.
scp_get(w, remote_path, local_path, alone) ==
    LET target == IF isdir(w.l, local_path) \/ ~alone
                  THEN Names(local_path) \o Names(basename(remote_path))
                  ELSE Names(local_path)
    IN IF \/ ~isfile(w.r, Remote(remote_path))
          \/ target = <<>>
          \/ ~(Front(target) \in DOMAIN w.l /\ w.l[Front(target)].dir)
          \/ (target \in DOMAIN w.l /\ w.l[target].dir)
       THEN raise(w, "SCPException", "get")
       ELSE [w EXCEPT
                !.l = with_file(w.l, target,
                                w.r[Names(Remote(remote_path))].data),
                !.done = Append(@, <<remote_path, PathOf(target)>>)]

\* The loop of get_file over its pairs; hybrid: SCPTransferClient._get_file.
RECURSIVE get_each(_, _, _)
get_each(w, pairs, hybrid) ==
    IF pairs = <<>> \/ w.exc # "none" THEN w
    ELSE get_each(IF hybrid THEN scp_get(w, pairs[1][1], pairs[1][2], TRUE)
                  ELSE _get_file(w, pairs[1][1], pairs[1][2]),
                  Tail(pairs), hybrid)

\* SFTPClient.get_file, which SCPTransferClient inherits
sftp_get_file(w, source, destination, hybrid) ==
    LET remote_files == _get_get_file_sources(w, source)
        to == _get_get_file_destinations(w, remote_files.files, destination)
        pairs == zip(remote_files.files, to.files)
        got == get_each(to.w, pairs, hybrid)
    IN IF remote_files.exc # "none"
       THEN raise(w, remote_files.exc, NoDirectory)
       ELSE IF remote_files.files = <<>>
       THEN raise(w, "SFTPClientException", NoSourcesFound)
       ELSE IF /\ Len(remote_files.files) > 1
               /\ Last(destination) # Sep /\ destination # <<".">>
       THEN raise(w, "SFTPClientException", OneLocalFile)
       ELSE IF got.exc # "none" THEN got
       ELSE [got EXCEPT !.out = <<pairs>>]

\* SSHClient._get_files_for_scp_all: the remote shell prints what source
\* expands to, which is source itself when nothing matches it.
_get_files_for_scp_all(w, source) ==
    LET d == dirname(source)
        names == IF isdir(w.r, Remote(d)) THEN listdir(w.r, Names(Remote(d)))
                 ELSE <<>>
    IN IF basename(source) # <<"*">> \/ names = <<>> THEN <<source>>
       ELSE [i \in 1..Len(names) |-> os_path_join(d, <<names[i]>>)]

\* scp.get of a list of remote paths, one after the other.
RECURSIVE scp_get_each(_, _, _, _)
scp_get_each(w, sources, destination, alone) ==
    IF sources = <<>> \/ w.exc # "none" THEN w
    ELSE scp_get_each(scp_get(w, sources[1], destination, alone),
                      Tail(sources), destination, alone)

\* SSHClient.get_file with scp ALL: SCPClient.get_file of what source
\* expands to; nothing is returned.
scp_get_file(w, source, destination) ==
    LET sources == _get_files_for_scp_all(w, source)
    IN scp_get_each(w, sources, destination, Len(sources) = 1)

\* SSHClient.get_file
get_file(source, destination, scp) ==
    Transfer("get_file", scp,
             [source |-> source, destination |-> destination, newline |-> "",
              scp |-> scp],
             IF scp = "ALL" THEN scp_get_file(World, source, destination)
             ELSE sftp_get_file(World, source, destination,
                                scp = "TRANSFER"))

\* SFTPClient._remove_ending_path_separator
_remove_ending_path_separator(p) ==
    IF p # <<>> /\ Last(p) = Sep THEN Front(p) ELSE p

\* SFTPClient.get_parent_folder: the last component of source
get_parent_folder(source) == basename(_remove_ending_path_separator(source))

\* SFTPClient.build_destination: a destination that exists gets the name of
\* the source directory appended, and that directory is made.
build_destination(w, source, destination) ==
    LET full == os_path_join(destination, get_parent_folder(source))
    IN IF ~exists(w.l, destination) /\ destination # <<".">>
       THEN [w |-> w, destination |-> destination]
       ELSE [w |-> IF exists(w.l, full) THEN w
                   ELSE IF InTheWay(w.l, Names(full))
                   THEN raise(w, "OSError", "makedirs")
                   ELSE [w EXCEPT !.l = makedirs(w.l, Names(full))],
             destination |-> full]

\* What a walk has come to: the world, and the pairs collected so far.
Walked(w, pairs) == [w |-> w, files |-> pairs]

\* SFTPClient.get_directory and _get_directory, and the loop of the latter
\* over the items of a remote directory.  A directory met in the loop goes
\* through get_directory, and so through build_destination, again.
RECURSIVE sftp_get_directory(_, _, _, _, _)
RECURSIVE get_items(_, _, _, _, _, _)
sftp_get_directory(w, source, destination, recursive, hybrid) ==
    LET built == build_destination(w, source, destination)
        src == _remove_ending_path_separator(source)
        items == listdir(built.w.r, Names(Remote(src)))
    IN IF built.w.exc # "none" THEN Walked(built.w, <<>>)
       ELSE IF ~isdir(built.w.r, Remote(src))
       THEN Walked(raise(built.w, "SFTPClientException", NoDirectory), <<>>)
       ELSE IF items # <<>>
       THEN get_items(Walked(built.w, <<>>), items, src, built.destination,
                      recursive, hybrid)
       ELSE IF exists(built.w.l, built.destination)
       THEN Walked(built.w, <<<<src, built.destination>>>>)
       ELSE IF InTheWay(built.w.l, Names(built.destination))
       THEN Walked(raise(built.w, "OSError", "makedirs"), <<>>)
       ELSE Walked([built.w EXCEPT
                       !.l = makedirs(@, Names(built.destination))],
                   <<<<src, built.destination>>>>)
get_items(at, items, source, destination, recursive, hybrid) ==
    IF items = <<>> \/ at.w.exc # "none" THEN at
    ELSE LET remote_path == source \o <<Sep, Head(items)>>
             local_path == os_path_join(destination, <<Head(items)>>)
             got == sftp_get_file(at.w, remote_path, local_path, hybrid)
             sub_dir == sftp_get_directory(at.w, remote_path, local_path,
                                           recursive, hybrid)
             next ==
                 IF isfile(at.w.r, Remote(remote_path))
                 THEN Walked([got EXCEPT !.out = <<>>],
                             IF got.exc = "none" THEN at.files \o got.out[1]
                             ELSE at.files)
                 ELSE IF recursive
                 THEN Walked(sub_dir.w, at.files \o sub_dir.files)
                 ELSE at
         IN get_items(next, Tail(items), source, destination, recursive,
                      hybrid)

\* What a call that walks a directory returns: the pairs it collected.
Collected(at) ==
    IF at.w.exc # "none" THEN at.w ELSE [at.w EXCEPT !.out = <<at.files>>]

\* The files of the tree under directory d of fs, in the order of a walk.
RECURSIVE tree(_, _)
RECURSIVE tree_of(_, _, _)
tree(fs, d) == tree_of(fs, d, listdir(fs, d))
tree_of(fs, d, items) ==
    IF items = <<>> THEN <<>>
    ELSE (IF fs[Append(d, Head(items))].dir
          THEN tree(fs, Append(d, Head(items)))
          ELSE <<Append(d, Head(items))>>)
         \o tree_of(fs, d, Tail(items))

\* A recursive scp copy of the tree under src of one file system to target
\* on the other: the entries it makes, whether one of them is in the way of
\* an entry of the other kind, the file system after it, and the copies of
\* files it has made.
Under(fs, d) ==
    {q \in DOMAIN fs : Len(q) >= Len(d) /\ SubSeq(q, 1, Len(d)) = d}
Moved(q, src, target) == target \o SubSeq(q, Len(src) + 1, Len(q))
Clash(from, to, src, target) ==
    \E q \in Under(from, src) :
       /\ Moved(q, src, target) \in DOMAIN to
       /\ to[Moved(q, src, target)].dir # from[q].dir
graft(from, to, src, target) ==
    [t \in DOMAIN to \cup {Moved(q, src, target) : q \in Under(from, src)} |->
        IF \E q \in Under(from, src) : Moved(q, src, target) = t
        THEN from[CHOOSE q \in Under(from, src) : Moved(q, src, target) = t]
        ELSE to[t]]
copies(from, src, target) ==
    [i \in 1..Len(tree(from, src)) |->
        <<PathOf(tree(from, src)[i]),
          PathOf(Moved(tree(from, src)[i], src, target))>>]

\* SCPClient.get_directory: scp.get with recursive=True of source, into
\* destination when that is a directory, else as destination; nothing is
\* returned.
scp_get_directory(w, source, destination) ==
    LET src == Names(Remote(source))
        target == IF isdir(w.l, destination)
                  THEN Names(destination) \o Names(basename(source))
                  ELSE Names(destination)
    IN IF isfile(w.r, Remote(source))
       THEN scp_get(w, source, destination, TRUE)
       ELSE IF \/ ~isdir(w.r, Remote(source))
               \/ target = <<>>
               \/ ~(Front(target) \in DOMAIN w.l /\ w.l[Front(target)].dir)
               \/ Clash(w.r, w.l, src, target)
       THEN raise(w, "SCPException", "get")
       ELSE [w EXCEPT
                !.l = graft(w.r, w.l, src, target),
                !.done = @ \o copies(w.r, src, target)]

\* SSHClient.get_directory
get_directory(source, destination, recursive, scp) ==
    Transfer("get_directory", scp,
             [source |-> source, destination |-> destination, newline |-> "",
              scp |-> scp, recursive |-> recursive],
             IF scp = "ALL" THEN scp_get_directory(World, source, destination)
             ELSE Collected(sftp_get_directory(World, source, destination,
                                              recursive, scp = "TRANSFER")))

NoSourcePath == "There was no source path matching '%s'."

\* SFTPClient._put_directory and its loop over the items of a local
\* directory.
RECURSIVE _put_directory(_, _, _, _, _, _)
RECURSIVE put_items(_, _, _, _, _, _, _)

\* A walk that names an empty directory without making its destination.
_put_directory_naming_only(w, source, destination, eol, recursive, hybrid) ==
    IF listdir(w.l, Names(source)) # <<>>
    THEN put_items(Walked(w, <<>>), listdir(w.l, Names(source)), source,
                   destination, eol, recursive, hybrid)
    ELSE Walked(w, <<<<source, destination>>>>)

_put_directory(w, source, destination, eol, recursive, hybrid) ==
    LET items == listdir(w.l, Names(source))
        made == _create_missing_remote_path(w, destination)
    IN IF items # <<>>
       THEN put_items(Walked(w, <<>>), items, source, destination, eol,
                      recursive, hybrid)
       ELSE IF made.exc # "none" THEN Walked(made, <<>>)
       ELSE Walked(made, <<<<source, destination>>>>)
put_items(at, items, source, destination, eol, recursive, hybrid) ==
    IF items = <<>> \/ at.w.exc # "none" THEN at
    ELSE LET local_path == os_path_join(source, <<Head(items)>>)
             remote_path == destination \o <<Sep, Head(items)>>
             put == sftp_put_file(at.w, local_path, remote_path, eol, NoFault,
                                  hybrid)
             sub_dir == _put_directory(at.w, local_path, remote_path, eol,
                                       recursive, hybrid)
             next ==
                 IF isfile(at.w.l, local_path)
                 THEN Walked([put EXCEPT !.out = <<>>],
                             IF put.exc = "none" THEN at.files \o put.out[1]
                             ELSE at.files)
                 ELSE IF recursive /\ isdir(at.w.l, local_path)
                 THEN Walked(sub_dir.w, at.files \o sub_dir.files)
                 ELSE at
         IN put_items(next, Tail(items), source, destination, eol, recursive,
                      hybrid)

\* SFTPClient.put_directory, which SCPTransferClient inherits
sftp_put_directory(w, source, destination, eol, recursive, hybrid) ==
    LET dest == _remove_ending_path_separator(destination)
        into == IF isdir(w.r, Remote(dest))
                THEN dest \o <<Sep>> \o basename(source) ELSE dest
    IN IF ~isdir(w.l, source)
       THEN Walked(raise(w, "SFTPClientException", NoSourcePath), <<>>)
       ELSE _put_directory(w, source, into, eol, recursive, hybrid)

\* SCPClient.put_directory: scp.put with recursive=True of source, into
\* destination when that is a directory, else as destination; nothing is
\* returned.
scp_put_directory(w, source, destination) ==
    LET to == Names(Remote(destination))
        target == IF isdir(w.r, Remote(destination))
                  THEN to \o Names(basename(source)) ELSE to
    IN IF isfile(w.l, source) THEN scp_put(w, source, destination)
       ELSE IF \/ ~isdir(w.l, source)
               \/ target = <<>>
               \/ ~(Front(target) \in DOMAIN w.r /\ w.r[Front(target)].dir)
               \/ Clash(w.l, w.r, Names(source), target)
       THEN raise(w, "SCPException", "put")
       ELSE [w EXCEPT
                !.r = graft(w.l, w.r, Names(source), target),
                !.done = @ \o copies(w.l, Names(source), target)]

\* SSHClient.put_directory
put_directory(source, destination, eol, recursive, scp) ==
    Transfer("put_directory", scp,
             [source |-> source, destination |-> destination, newline |-> eol,
              scp |-> scp, recursive |-> recursive],
             IF scp = "ALL" THEN scp_put_directory(World, source, destination)
             ELSE Collected(sftp_put_directory(World, source, destination, eol,
                                              recursive, scp = "TRANSFER")))

\* ------------------------------------------------------ remote probes
\* SFTPClient.is_dir and is_file: what stat says of path.  The server is
\* asked about the path as it is given; an empty path is the home directory
\* to a server that follows the protocol draft and no file at all to others
\* (empty_is_home).
sftp_is_dir(fs, path, empty_is_home) ==
    IF path = <<>> THEN empty_is_home ELSE isdir(fs, Remote(path))
sftp_is_file(fs, path, empty_is_home) ==
    IF path = <<>> THEN FALSE ELSE isfile(fs, Remote(path))

\* What a probe of the remote host ends with: an exception or a value.
Found(value) == [exc |-> "none", msg |-> "", out |-> <<value>>]
NotFound(exc, msg) == [exc |-> exc, msg |-> msg, out |-> <<>>]

\* SFTPClient._list_filtered with _get_directory_names or _get_file_names:
\* the names of the directories (dirs) or of the regular files in path.
_list_filtered(fs, path, dirs, empty_is_home) ==
    LET d == Names(Remote(path))
    IN IF ~sftp_is_dir(fs, path, empty_is_home)
       THEN NotFound("SFTPClientException", NoDirectory)
       ELSE Found(SelectSeq(listdir(fs, d),
                            LAMBDA n : fs[Append(d, n)].dir = dirs))

\* bool([ops for ops in "*?![" if (ops in path)])
has_glob(path) == \E i \in 1..Len(path) : path[i] = "*"

\* path[: (-len(path.split(path_separator)[-1]))]: the path up to its last
\* component, which is nothing when there is no last component.
dir_dir(path) ==
    IF basename(path) = <<>> THEN <<>> ELSE SubSeq(path, 1, LastSep(path))

\* SSHClient.is_dir on the SFTP client
is_dir_of(fs, path, empty_is_home) ==
    LET dirs == _list_filtered(fs, dir_dir(path), TRUE, empty_is_home)
        matching == SelectSeq(dirs.out[1],
                              LAMBDA n : fnmatchcase(n, basename(path)))
    IN IF ~has_glob(path) THEN Found(sftp_is_dir(fs, path, empty_is_home))
       ELSE IF dirs.exc # "none" THEN dirs
       ELSE IF matching # <<>>
       THEN Found(sftp_is_dir(fs, dir_dir(path) \o <<Head(matching)>>,
                              empty_is_home))
       ELSE Found(sftp_is_dir(fs, path, empty_is_home))

\* SSHClient.is_file on the SFTP client
is_file_of(fs, path, empty_is_home) ==
    LET files == _list_filtered(fs, dir_dir(path), FALSE, empty_is_home)
        matching == SelectSeq(files.out[1],
                              LAMBDA n : fnmatchcase(n, basename(path)))
    IN IF ~has_glob(path) \/ dir_dir(path) = <<>>
       THEN Found(sftp_is_file(fs, path, empty_is_home))
       ELSE IF files.exc # "none" THEN files
       ELSE IF matching # <<>>
       THEN Found(sftp_is_file(fs, dir_dir(path) \o <<Head(matching)>>,
                               empty_is_home))
       ELSE Found(sftp_is_file(fs, path, empty_is_home))

\* A probe op of the Session for path, which ends as found on the SFTP
\* client of the open connection; the client is read from its property.
Probe(op, path, empty_is_home, found) ==
    /\ pc = "idle"
    /\ _sftp_client' = cached(_sftp_client, _create_sftp_client(client))
    /\ ret' = IF _sftp_client' # "cur"
              THEN [Raised(op, "Exception", "") EXCEPT
                       !.args = <<[path |-> path,
                                   empty_is_home |-> empty_is_home]>>]
              ELSE [Ret(op, found.exc, found.msg) EXCEPT
                       !.out = found.out,
                       !.args = <<[path |-> path,
                                   empty_is_home |-> empty_is_home]>>]
    /\ Forgotten(in_buffer)
    /\ UNCHANGED <<client, tunnel, _shell, terminal, _started_commands, chan,
                   pc, frame, now, in_buffer, reader, _scp_transfer_client,
                   _scp_all_client, filesystem>>

\* SSHClient.is_dir, SSHClient.is_file
is_dir(path, empty_is_home) ==
    Probe("is_dir", path, empty_is_home,
          is_dir_of(remote, path, empty_is_home))
is_file(path, empty_is_home) ==
    Probe("is_file", path, empty_is_home,
          is_file_of(remote, path, empty_is_home))

\* ------------------------------------------------------ specifications
\* A Session as its constructor leaves it.
Constructed ==
    /\ SessionInit
    /\ chan = [c \in ChanIds |-> FreeChan]
    /\ pc = "idle"
    /\ cur = 0
    /\ timeout = 0
    /\ end_time = 0
    /\ status_at = NotYet
    /\ entry = "none"
    /\ stdouts = <<>>
    /\ stderrs = <<>>
    /\ now = 0
    /\ ret = NoRet
    /\ in_buffer = <<>>
    /\ server_output = <<>>
    /\ output = <<>>
    /\ call = NoCall
    /\ max_time = 0
    /\ written = 0
    /\ slept = FALSE
    /\ buffered = FALSE
    /\ stream = <<>>
    /\ open_files = {}
    /\ transferred = <<>>

Init == Constructed /\ local = LocalFiles /\ remote = RemoteFiles

Login == \E r \in LoginResults : login(r)

\* The command executor of a Session.
Next ==
    \/ Login
    \/ close
    \/ \E o \in {"ok", "open_session", "exec"} : start_command(o)
    \/ \E t \in Timeouts : read_command_output(t)
    \/ _receive_stdout_and_stderr
    \/ _flush_stdout_and_stderr
    \/ read_outputs
    \/ \E c \in ChanIds : exit_status(c)
    \/ \E c \in ChanIds : eof_received(c)
    \/ \E c \in ChanIds : channel_closed(c)
    \/ Tick

Spec == Init /\ [][Next]_vars

\* The life cycle of a Session and its cached sub-resources.
SessionNext ==
    \/ Login
    \/ close
    \/ sftp_client
    \/ scp_transfer_client
    \/ scp_all_client
    \/ shell_property
    \/ create_local_ssh_tunnel
    \/ \E w \in {80, 100}, h \in {24, 30} : update(w, h)

SessionSpec == Init /\ [][SessionNext]_vars

\* The texts and patterns the shell calls are given.
Texts == {<<"a">>, <<"E">>, <<"a", "a">>}
Patterns == {<<<<"a", "n">>>>, <<<<"E">>, <<"n">>>>}
Prompts == {[regexp |-> FALSE, pattern |-> <<>>],
            [regexp |-> FALSE, pattern |-> <<<<"a">>>>],
            [regexp |-> TRUE, pattern |-> <<<<"E">>, <<"n">>>>],
            [regexp |-> TRUE, pattern |-> <<<<"E">>, <<>>>>]}

\* The interactive shell of a Session.
ShellNext ==
    \/ Login
    \/ close
    \/ \E e \in Texts : read_until(e)
    \/ read_until_newline
    \/ \E r \in Patterns : read_until_regexp(r)
    \/ \E p \in Prompts, strip_prompt \in BOOLEAN :
          read_until_prompt(p, strip_prompt)
    \/ \E r \in Patterns, prefix \in {<<"a">>, <<"n">>} :
          read_until_regexp_with_prefix(r, prefix)
    \/ \E e \in Texts, t \in Timeouts, interval \in Timeouts :
          write_until_expected(e, t, interval)
    \/ write_until_expected_loop
    \/ _read_until
    \/ read_char
    \/ \E b \in Bytes : data_received(b)
    \/ Tick

ShellSpec == Init /\ [][ShellNext]_vars

\* Logging in: login and login_with_public_key over their arguments and
\* over what the connect and the authentication requests end with.
LoginNext ==
    \/ \E a \in LoginArgs, e \in Met : login(_login(a, e))
    \/ \E a \in [username : {"user"}, password : {FALSE},
                  allow_agent : {FALSE}, proxy_cmd : {None, "proxy"},
                  jumphost : {None, "open"}, read_config : {FALSE},
                  keyfile : {None, "key", "missing"}], e \in Met :
          login_with_public_key(_login_with_public_key(a, e))
    \/ \E c \in ConnectOutcomes : get_banner_without_login(c)
    \/ close

LoginSpec == Init /\ [][LoginNext]_vars

\* Logging in with read_config: the entry of the host in ~/.ssh/config, if
\* there is such a file, is any.
ConfigNext ==
    \/ \E a \in [username : {"user"}, password : {TRUE},
                  allow_agent : {FALSE}, proxy_cmd : {None, "proxy"},
                  jumphost : {None, "open"}, read_config : {TRUE},
                  keyfile : {None}],
          e \in [ssh_config : {<<>>} \cup {<<conf>> : conf \in ConfEntries},
                 c : {"ok"}, none_ok : {FALSE}, pw_ok : {TRUE}] :
          login(_login(a, e))
    \/ \E a \in [username : {"user"}, password : {FALSE},
                  allow_agent : {FALSE}, proxy_cmd : {None, "proxy"},
                  jumphost : {None}, read_config : {TRUE},
                  keyfile : {None, "key"}],
          e \in [ssh_config : {<<>>} \cup {<<conf>> : conf \in ConfEntries},
                 c : {"ok"}, none_ok : {FALSE}, pw_ok : {TRUE}] :
          login_with_public_key(_login_with_public_key(a, e))
    \/ \E a \in [username : {"user"}, password : {FALSE},
                  allow_agent : {FALSE}, proxy_cmd : {None},
                  jumphost : {None}, read_config : BOOLEAN,
                  keyfile : {None, "key", "missing"}],
          e \in [ssh_config : {<<>>}, c : {"ok"}, none_ok : {FALSE},
                 pw_ok : {TRUE}] :
          login_with_public_key(_login_with_public_key(a, e))
    \/ close

ConfigSpec == Init /\ [][ConfigNext]_vars

\* The file systems are as no transfer has changed them yet.
Untouched == local = LocalFiles /\ remote = RemoteFiles /\ open_files = {}

\* Transfers of files and directories, each made on the file systems as they
\* are at first.
TransferNext ==
    \/ \E a \in [username : {"user"}, password : {TRUE},
                  allow_agent : {FALSE}, proxy_cmd : {None},
                  jumphost : {None}, read_config : {FALSE},
                  keyfile : {None}],
          e \in [ssh_config : {<<>>}, c : {"ok"}, none_ok : {FALSE},
                 pw_ok : {TRUE}] :
          login(_login(a, e))
    \/ \E source \in {<<"l", Sep, "a">>, <<"l", Sep, "s", Sep, "*">>,
                       <<"l", Sep, "*">>, <<"l", Sep, "q">>},
          destination \in {<<".">>, <<"d", Sep>>, <<"d">>, <<"r">>,
                            <<"d", Sep, "t">>},
          scp \in {"OFF", "TRANSFER", "ALL"} :
          Untouched /\ put_file(source, destination, "", scp, NoFault)
    \/ \E source \in {<<"r", Sep, "a">>, <<"r", Sep, "s", Sep, "*">>,
                       <<"r", Sep, "*">>, <<"r", Sep, "q">>,
                       <<"q", Sep, "*">>},
          destination \in {<<".">>, <<"d", Sep>>, <<"d">>, <<"l">>},
          scp \in {"OFF", "TRANSFER", "ALL"} :
          Untouched /\ get_file(source, destination, scp)

TransferSpec == Init /\ [][TransferNext]_vars

\* The transfers of directories after one login, each made on the file
\* systems as they were at first, with and without their subdirectories and
\* by every client.
DirectoryNext ==
    \/ \E a \in [username : {"user"}, password : {TRUE},
                  allow_agent : {FALSE}, proxy_cmd : {None},
                  jumphost : {None}, read_config : {FALSE},
                  keyfile : {None}],
          e \in [ssh_config : {<<>>}, c : {"ok"}, none_ok : {FALSE},
                 pw_ok : {TRUE}] :
          client = "none" /\ login(_login(a, e))
    \/ \E source \in {<<"l">>, <<"l", Sep, "s">>, <<"l", Sep, "e">>,
                       <<"q">>},
          destination \in {<<".">>, <<"t">>, <<"r">>, <<"r", Sep>>},
          recursive \in BOOLEAN, scp \in {"OFF", "TRANSFER", "ALL"} :
          Untouched /\ put_directory(source, destination, "", recursive, scp)
    \/ \E source \in {<<"r">>, <<"r", Sep, "s">>, <<"r", Sep, "e">>,
                       <<"q">>},
          destination \in {<<".">>, <<"t">>, <<"l">>},
          recursive \in BOOLEAN, scp \in {"OFF", "TRANSFER", "ALL"} :
          Untouched /\ get_directory(source, destination, recursive, scp)

DirectorySpec == Init /\ [][DirectoryNext]_vars

\* Downloads of directories one after the other by the SFTP clients, each
\* made on the local files as the downloads before it have left them.
RepeatNext ==
    \/ \E a \in [username : {"user"}, password : {TRUE},
                  allow_agent : {FALSE}, proxy_cmd : {None},
                  jumphost : {None}, read_config : {FALSE},
                  keyfile : {None}],
          e \in [ssh_config : {<<>>}, c : {"ok"}, none_ok : {FALSE},
                 pw_ok : {TRUE}] :
          client = "none" /\ login(_login(a, e))
    \/ \E source \in {<<"r">>, <<"r", Sep, "s">>},
          destination \in {<<".">>, <<"t">>},
          recursive \in BOOLEAN, scp \in {"OFF", "TRANSFER"} :
          get_directory(source, destination, recursive, scp)

RepeatSpec == Init /\ [][RepeatNext]_vars

\* The probes of the remote file system, for paths that name a file, a
\* directory and nothing, with and without a pattern as last component.
ProbeNext ==
    \/ \E a \in [username : {"user"}, password : {TRUE},
                  allow_agent : {FALSE}, proxy_cmd : {None},
                  jumphost : {None}, read_config : {FALSE},
                  keyfile : {None}],
          e \in [ssh_config : {<<>>}, c : {"ok"}, none_ok : {FALSE},
                 pw_ok : {TRUE}] :
          login(_login(a, e))
    \/ \E path \in {<<"r", Sep, "*">>, <<"r", Sep, "s", Sep, "*">>,
                     <<"r", Sep, "e", Sep, "*">>, <<"q", Sep, "*">>,
                     <<"*">>, <<"r", Sep, "a">>, <<"r", Sep, "s">>,
                     <<Sep, "home", Sep, "r", Sep, "*">>},
          empty_is_home \in BOOLEAN :
          is_dir(path, empty_is_home)
    \/ \E path \in {<<"r", Sep, "*">>, <<"r", Sep, "s", Sep, "*">>,
                     <<"r", Sep, "e", Sep, "*">>, <<"q", Sep, "*">>,
                     <<"*">>, <<"r", Sep, "a">>, <<"r", Sep, "s">>,
                     <<Sep, "home", Sep, "r", Sep, "*">>},
          empty_is_home \in BOOLEAN :
          is_file(path, empty_is_home)

ProbeSpec == Init /\ [][ProbeNext]_vars

\* The command executor with execute_command.
ExecNext ==
    \/ Next
    \/ \E o \in {"ok", "open_session", "exec"}, t \in Timeouts :
          execute_command(o, t)

ExecSpec == Init /\ [][ExecNext]_vars

\* One command at a time and what it writes: its output arrives in any
\* chunks, before and after its exit status, and it is read by
\* read_command_output or execute_command with and without a timeout.
OutputNext ==
    \/ \E a \in [username : {"user"}, password : {TRUE},
                  allow_agent : {FALSE}, proxy_cmd : {None},
                  jumphost : {None}, read_config : {FALSE},
                  keyfile : {None}],
          e \in [ssh_config : {<<>>}, c : {"ok"}, none_ok : {FALSE},
                 pw_ok : {TRUE}] :
          client = "none" /\ login(_login(a, e))
    \/ _started_commands = <<>> /\ start_command("ok")
    \/ \E t \in {0, MaxTimeout} : read_command_output(t)
    \/ \E t \in {0, MaxTimeout} :
          _started_commands = <<>> /\ execute_command("ok", t)
    \/ _receive_stdout_and_stderr
    \/ _flush_stdout_and_stderr
    \/ _output_logging
    \/ read_outputs
    \/ \E c \in ChanIds : stdout_received(c)
    \/ \E c \in ChanIds : stderr_received(c)
    \/ \E c \in ChanIds : exit_status(c)
    \/ \E c \in ChanIds : eof_received(c)
    \/ \E c \in ChanIds : channel_closed(c)
    \/ Tick

OutputSpec == Init /\ [][OutputNext]_vars

\* The same under the scheduling of the code: a call that can take a step
\* takes it, and time passes; the remote side owes nothing.
FairOutputSpec ==
    /\ OutputSpec
    /\ WF_vars(_receive_stdout_and_stderr)
    /\ WF_vars(_flush_stdout_and_stderr)
    /\ WF_vars(_output_logging)
    /\ WF_vars(read_outputs)
    /\ WF_vars(Tick)

\* The contents of a file of up to MaxFileLen bytes.
FileData == UNION {[1..n -> FileBytes] : n \in 0..MaxFileLen}

\* One local file f, of any content, and a remote home directory.
CopyInit ==
    /\ Constructed
    /\ \E data \in FileData :
          local = (<<>> :> Dir) @@ (<<"f">> :> File(data))
    /\ remote = (<<>> :> Dir) @@ (<<"home">> :> Dir)

\* The upload of f as g, with and without translation of its line ends and
\* with the failures a copy can meet, and the download of g as h.
CopyNext ==
    \/ \E a \in [username : {"user"}, password : {TRUE},
                  allow_agent : {FALSE}, proxy_cmd : {None},
                  jumphost : {None}, read_config : {FALSE},
                  keyfile : {None}],
          e \in [ssh_config : {<<>>}, c : {"ok"}, none_ok : {FALSE},
                 pw_ok : {TRUE}] :
          login(_login(a, e))
    \/ \E eol \in {"", "LF", "CRLF"}, scp \in {"OFF", "TRANSFER", "ALL"},
          fault \in [at : {"none", "read", "sub", "write"},
                     n : 1..(MaxFileLen \div ChunkSize + 1)] :
          /\ <<"home", "g">> \notin DOMAIN remote
          /\ put_file(<<"f">>, <<"g">>, eol, scp, fault)
    \/ \E scp \in {"OFF", "TRANSFER", "ALL"} :
          /\ <<"h">> \notin DOMAIN local
          /\ get_file(<<"g">>, <<"h">>, scp)

CopySpec == CopyInit /\ [][CopyNext]_vars

\* ================================================================ claims
Max(S) == CHOOSE x \in S : \A y \in S : y <= x

\* The commands started and not yet read (channels are numbered in the order
\* start_command opened them).
Unread == {c \in ChanIds : chan[c].st \in {"open", "closed"} /\ chan[c].nread = 0}

\* C1: every read_command_output consumes the most recently started command
\* among those not yet read, so an earlier command is read only once every
\* later one has been.
C1_LastStartedFirstRead ==
    [][\A c \in ChanIds :
          chan'[c].nread > chan[c].nread => c = Max(Unread)]_vars

\* C1 witness: the second command has been read while the first still waits.
C1_Witness ==
    /\ chan[2].nread = 1
    /\ chan[1].nread = 0
    /\ _started_commands = <<1>>

NoStartedCommands ==
    Raised("read_command_output", "SSHClientException",
           "No started commands to read output from.")

\* C2: read_command_output on an empty stack raises the "no started
\* commands" SSHClientException, touching no channel and leaving the stack
\* empty; the error is raised in no other situation.
C2_NoStartedCommands ==
    /\ [][(\E t \in Timeouts : read_command_output(t)) /\ _started_commands = <<>>
            => ret' = NoStartedCommands]_vars
    /\ [][ret' = NoStartedCommands /\ ret' # ret
            => /\ _started_commands = <<>>
               /\ _started_commands' = <<>>
               /\ chan' = chan
               /\ pc' = "idle"]_vars

\* C2 witness: the error is raised after every started command was read.
C2_Witness ==
    /\ ret = NoStartedCommands
    /\ \E c \in ChanIds : chan[c].nread = 1

\* C3: a channel is closed, exactly once, by the read_command_output call
\* that consumes its command: once that call has ended the channel is closed,
\* and no channel is closed or read twice.
C3_ClosedExactlyOnceByRead ==
    \A c \in ChanIds :
        /\ chan[c].nread <= 1
        /\ chan[c].nclose <= 1
        /\ (chan[c].nread = 1 /\ ~(pc # "idle" /\ cur = c))
              => (chan[c].st = "closed" /\ chan[c].nclose = 1)

\* C4: read_command_output with a timeout returns outputs only of a command
\* that completed within the timeout; otherwise it raises the timeout error
\* naming the timeout in whole seconds.
C4_TimeoutRaises ==
    (ret.op = "read_command_output" /\ ret.t > 0) =>
        LET in_time == ret.at \in 0..ret.t
        IN /\ ret.exc = "none" => in_time
           /\ ~in_time => /\ ret.exc = "RemoteCommandException"
                          /\ ret.secs = ret.t \div TicksPerSecond

ReadUntilOps ==
    {"read_until", "read_until_newline", "read_until_prompt",
     "read_until_regexp"}

\* The running call is in the loop of _read_until or below it.
Reading == pc \in {"_read_until", "read_char"}

\* The call that has just ended raised the timeout error of op.
TimedOut(op) ==
    /\ ret.op = op
    /\ ret.exc \in {"SSHClientException", "RemoteCommandException"}
    /\ ret.msg # "Prompt is not set."
    /\ ret.msg # "No started commands to read output from."

\* C5: what read_until(expected) returns contains expected and no shorter
\* prefix of it does, so it ends with expected; it is all the call took from
\* the unread shell output, the rest of which is still buffered; and when
\* expected was wholly buffered as the call began, the call has not waited.
C5_ShortestPrefix ==
    (ret.op = "read_until" /\ ret.exc = "none") =>
        LET out == ret.out[1]
            expected == call.expected[1]
        IN /\ Contains(out, expected)
           /\ \A k \in 0..(Len(out) - 1) : ~Contains(SubSeq(out, 1, k), expected)
           /\ Len(out) >= Len(expected)
           /\ SubSeq(out, Len(out) - Len(expected) + 1, Len(out)) = expected
           /\ _encode(out) \o in_buffer = stream
           /\ buffered => ~slept

\* C5 witness: read_until has returned two buffered characters without
\* waiting, and a byte that followed them is still buffered.
C5_Witness ==
    /\ ret.op = "read_until" /\ ret.exc = "none"
    /\ Len(ret.out[1]) = 2
    /\ buffered /\ ~slept
    /\ in_buffer # <<>>

\* C6: a read-until operation is never still reading once its timeout has
\* elapsed, whatever the remote side delivers or withholds.
C6_ReadUntilTerminates ==
    (Reading /\ call.op \in ReadUntilOps) => now <= end_time

\* C7: the timeout error of a read-until operation embeds the expected text
\* or pattern and exactly the output the call took from the shell.
C7_TimeoutErrorEmbedsOutput ==
    \A op \in ReadUntilOps \cup {"read_until_regexp_with_prefix"} :
        TimedOut(op) =>
            /\ ret.exp = <<call.expected>>
            /\ Len(ret.out) = 1
            /\ _encode(ret.out[1]) \o in_buffer = stream

\* C7 witness: a read-until operation has timed out after it took a two-byte
\* character and another one from the shell.
C7_Witness ==
    /\ \E op \in ReadUntilOps : TimedOut(op)
    /\ Len(ret.out[1]) = 2
    /\ Len(stream) = 3
    /\ in_buffer = <<>>

C9_AttemptWaitsAtMostInterval ==
    /\ (Reading /\ call.op = "write_until_expected") =>
          /\ written >= 1
          /\ end_time - timeout < max_time
          /\ now - (end_time - timeout) <= call.interval
    /\ (ret.op = "write_until_expected" /\ ret.exc = "none") =>
          Contains(ret.out[1], call.expected[1])

\* C10: when close() has returned, no shell and no transfer client is cached,
\* no tunnel is open and the transport is closed.
C10_CloseDiscardsAll ==
    ret.op = "close" =>
        /\ ret.exc = "none"
        /\ _shell = None
        /\ _sftp_client = None
        /\ _scp_transfer_client = None
        /\ _scp_all_client = None
        /\ tunnel # "open"
        /\ client = "none"

\* C10 witness: close() has discarded a shell and all three transfer clients.
C10_Witness == ret.op = "close" /\ ret.n = 4

\* C11: close is idempotent.  A close of a Session that was never opened, or
\* a second close right after a first one, does not raise and leaves the
\* Session as the single close left it: nothing of its state changes.
NeverOpened ==
    /\ client = "none"
    /\ tunnel = None
    /\ <<_sftp_client, _scp_transfer_client, _scp_all_client, _shell>>
          = <<None, None, None, None>>
C11_CloseIdempotent ==
    [][(ret'.op = "close" /\ (ret.op = "close" \/ NeverOpened))
        => /\ ret'.exc = "none"
           /\ UNCHANGED <<session, _started_commands, chan, in_buffer>>]_vars
C11_Witness == ret.op = "close" /\ ret.again /\ ret.exc = "none"

\* C12: between two close calls each of the accessors shell, sftp_client,
\* scp_transfer_client and scp_all_client creates its object at most once, on
\* the first access: an object once cached stays the one cached (on a
\* transport that may have been replaced since) until a close discards it,
\* and an access that finds it cached creates nothing.  So the Session holds
\* at most one interactive shell at a time.
Caches == <<_sftp_client, _scp_transfer_client, _scp_all_client, _shell>>
Accessors == <<"sftp_client", "scp_transfer_client", "scp_all_client", "shell">>
C12_CreatedAtMostOnce ==
    [][\A i \in 1..4 :
          Caches[i] # None =>
             /\ \/ Caches'[i] \in {Caches[i], Aged(Caches[i])}
                \/ Caches'[i] = None /\ ret'.op = "close"
             /\ ret'.op = Accessors[i] /\ ret' # ret =>
                   /\ ret'.exc = "none"
                   /\ ret'.n = 0
                   /\ Caches'[i] = Caches[i]]_vars
C12_Witness ==
    /\ ret.op = "sftp_client"
    /\ ret.exc = "none"
    /\ ret.n = 0
    /\ _sftp_client = "old"

\* C13: a read of the shell property sends a resize exactly when the
\* configured width or height has changed since the shell was created or
\* last resized, that is when the shell it finds cached has another size
\* than the configured one, and after the read the shell's terminal has the
\* configured size.
C13_ResizeExactlyOnChange ==
    [][(ret'.op \in {"shell", "login"} /\ ret' # ret /\ ret'.exc = "none")
        => /\ ret'.resize <=>
                 (_shell # None /\ pty # <<config.width, config.height>>)
           /\ pty' = <<config.width, config.height>>]_vars

\* C14: an operation that needs the interactive shell, called on a Session
\* whose connection is not open, fails with the usage error that tells the
\* caller to establish a connection first: no read of the shell runs while
\* the connection is not open, and a read-until operation that has ended on
\* such a Session has raised that error (or found no prompt set, before it
\* needed the shell).
C14_ShellNeedsConnection ==
    client # "open" =>
        /\ ~Reading
        /\ ret.op \in ReadUntilOps \cup {"read_until_regexp_with_prefix"} =>
              \/ ret.exc = "RuntimeError" /\ ret.msg = CannotOpen
              \/ ret.msg = "Prompt is not set."

\* C15: whenever login or login_with_public_key has tried to connect and
\* does not end with an authenticated connection, the transport is closed
\* before the error reaches the caller, and the error is the authentication
\* error (an SSHClientException) whose message names the user; when it
\* returns, the connection is open and authenticated.
Logins == {"login", "login_with_public_key"}
Called(name) == \E i \in 1..Len(ret.calls) : ret.calls[i] = name
C15_FailedLoginClosesTransport ==
    ret.op \in Logins /\ Called("connect") =>
        IF ret.exc = "none" THEN client = "open"
        ELSE /\ client = "none"
             /\ Last(ret.calls) = "close"
             /\ ret.exc = "SSHClientException"
             /\ ret.msg \in
                   {"Authentication failed for user 'user'.",
                    "Login with public key failed for user \"get_banner\"'user'."}

\* C16: a failure of the connect or of the banner exchange during login,
\* login_with_public_key or get_banner_without_login reaches the caller only
\* as the library's own exception, never as the raw error of paramiko or of
\* the socket, nor as an error raised on a transport that is missing.
C16_OnlyOwnExceptions ==
    /\ ret.op = "get_banner_without_login" =>
          ret.exc \in {"none", "SSHClientException"}
    /\ (/\ ret.op \in Logins
        /\ Called("connect")
        /\ ret.args[1].e.c \in {"socket", "banner"})
          => ret.exc = "SSHClientException"

\* C17: login and login_with_public_key, given both a proxy command and a
\* jumphost, fail before any tunnel is opened and before any connection is
\* attempted, the one option never chosen over the other; the error is the
\* configuration error (a ValueError), unless login_with_public_key has
\* found its key file missing first.
C17_BothOptionsRejected ==
    (/\ ret.op \in Logins
     /\ ret.args[1].proxy_cmd # None
     /\ ret.args[1].jumphost # None)
       => /\ ret.calls = <<>>
          /\ ret.exc # "none"
          /\ ret.exc = "ValueError" \/ ret.args[1].key_file # "key"
C17_Witness ==
    /\ ret.op = "login"
    /\ ret.exc = "ValueError"
    /\ ret.args[1].proxy_cmd # None
    /\ ret.args[1].jumphost # None
    /\ client = "open"

\* C18: a login with a password first makes the standard connect; the
\* explicit fallback runs only if that connect failed authentication; in the
\* fallback the 'none' request precedes the password request, which is made
\* whether or not 'none' was rejected; and the login then fails only if the
\* password request fails too.
Requests ==
    SelectSeq(ret.calls,
              LAMBDA x : x \in {"connect", "auth_none", "auth_password"})
C18_FallbackNoneThenPassword ==
    (ret.op = "login" /\ ret.args[1].a.password /\ Called("connect")) =>
        IF ret.args[1].e.c = "auth"
        THEN /\ Requests = <<"connect", "auth_none", "auth_password">>
             /\ ret.exc = "none" <=> ret.args[1].e.pw_ok
             /\ ret.exc \in {"none", "SSHClientException"}
        ELSE /\ Requests = <<"connect">>
             /\ ret.args[1].e.c = "ok" => ret.exc = "none"
C18_Witness ==
    /\ ret.op = "login"
    /\ ret.args[1].a.password
    /\ ret.args[1].e.c = "auth"
    /\ ~ret.args[1].e.none_ok
    /\ ret.args[1].e.pw_ok
    /\ Requests = <<"connect", "auth_none", "auth_password">>
    /\ ret.exc = "none"
    /\ client = "open"

C20_ConfigOrGivenPerField ==
    [][(/\ ret'.op \in Logins /\ ret' # ret
        /\ ret'.args[1].a.read_config
        /\ ret'.args[1].a.keyfile # "missing") =>
          LET r == ret'.args[1]
              Entry(key, given) ==
                  IF r.e.ssh_config # <<>> /\ r.e.ssh_config[1][key] # <<>>
                  THEN r.e.ssh_config[1][key][1]
                  ELSE given
          IN /\ r.host = Entry("hostname", config.host)
             /\ r.port = Entry("port", config.port)
             /\ r.proxy_cmd = Entry("proxycommand", r.a.proxy_cmd)
             /\ r.user = Entry("user", r.a.username)
             /\ ret'.op = "login_with_public_key" =>
                   r.key_file = Entry("identityfile", r.a.keyfile)]_vars

\* C21: login_with_public_key finds a key file that is missing or unreadable
\* before it connects, whether the key file was given or comes from
\* ~/.ssh/config, and fails with the error that names the key file and what
\* is wrong with it; no key file at all, with read_config unset, is a
\* RuntimeError; in none of these cases is connect called.
C21_KeyFileCheckedFirst ==
    [][(ret'.op = "login_with_public_key" /\ ret' # ret) =>
          LET r == ret'.args[1]
              bad == r.a.keyfile = "missing" \/ r.key_file = "cfg_missing"
              unset == r.a.keyfile = None /\ ~r.a.read_config
          IN /\ bad => /\ ret'.exc = "SSHClientException"
                       /\ ret'.msg = "Given key file does not exist."
             /\ unset => ret'.exc = "RuntimeError"
             /\ (bad \/ unset) => ~Called("connect")']_vars

\* C22: read_until_prompt with strip_prompt returns what it has consumed
\* without the text that matched the prompt at its end (the prompt itself, or
\* the span its pattern matched), everything before it kept; with no prompt
\* set it fails with 'Prompt is not set.' and consumes nothing.
C22_PromptStrippedFromTail ==
    [][(ret'.op = "read_until_prompt" /\ ret' # ret) =>
          /\ ret'.msg = "Prompt is not set." => in_buffer' = in_buffer
          /\ (ret'.exc = "none" /\ call'.strip # "no") =>
                \E k \in 1..Len(call'.expected) :
                   _encode(ret'.out[1] \o call'.expected[k]) \o in_buffer'
                      = stream']_vars

\* The transfer call that has just ended was made on a client of the open
\* connection.
Served ==
    /\ ret.op \in {"put_file", "get_file", "put_directory", "get_directory"}
    /\ "cur" = (IF ret.args[1].scp = "ALL" THEN _scp_all_client
                ELSE IF ret.args[1].scp = "TRANSFER"
                THEN _scp_transfer_client ELSE _sftp_client)

\* No entry of fs is at a place the names of pattern match.
MatchesNothing(fs, pattern) ==
    \A q \in DOMAIN fs :
       ~(/\ Len(q) = Len(pattern)
         /\ \A i \in 1..Len(q) : pattern[i] \in {"*", q[i]})

\* C23: a put_file or get_file whose source matches no file fails with the
\* error of no matching source files, whichever client serves it, and
\* leaves both file systems as they were.
C23_NoSourceNothingCreated ==
    [][(/\ Served' /\ ret'.op \in {"put_file", "get_file"}
        /\ IF ret'.op = "put_file"
           THEN MatchesNothing(local, Names(ret'.args[1].source))
           ELSE MatchesNothing(remote, Names(Remote(ret'.args[1].source)))) =>
          /\ ret'.exc \in {"SFTPClientException", "SCPClientException"}
          /\ ret'.msg \in {NoSourceFiles, NoSourcesFound}
          /\ local' = local
          /\ remote' = remote]_vars

\* C24: SFTPClient.put_file (the client of scp OFF and, inherited, of scp
\* TRANSFER) of several matched sources to a destination that neither ends
\* with the separator nor is a remote directory fails with the usage error
\* (ValueError), and the remote file system is as it was.
C24_SeveralSourcesOneFile ==
    [][(/\ Served' /\ ret'.op = "put_file" /\ ret'.args[1].scp # "ALL"
        /\ Len(glob(local, ret'.args[1].source)) > 1
        /\ Last(ret'.args[1].destination) # Sep
        /\ ~isdir(remote, Remote(ret'.args[1].destination))) =>
          /\ ret'.exc = "ValueError"
          /\ ret'.msg = OneDestinationFile
          /\ remote' = remote]_vars

\* C24 witness: two local files were to be put as the one remote file d/t,
\* whose directory does not exist, and the call has raised the ValueError.
C24_Witness ==
    /\ Served /\ ret.op = "put_file" /\ ret.exc = "ValueError"
    /\ ret.args[1].source = <<"l", Sep, "s", Sep, "*">>
    /\ ret.args[1].destination = <<"d", Sep, "t">>
    /\ ~isdir(remote, <<Sep, "home", Sep, "d">>)

\* C25: SFTPClient.put_file to a destination that ends with the separator or
\* is '.' returns one pair for every matched source, in their order: the
\* source, and the remote path that leads to the name of the source in the
\* destination directory (from the remote home unless absolute; the home
\* itself for '.'), where the bytes of the source now are; sources of
\* different names have different remote paths.
C25_OnePairPerSource ==
    [][(/\ Served' /\ ret'.op = "put_file" /\ ret'.args[1].scp # "ALL"
        /\ ret'.exc = "none"
        /\ \/ Last(ret'.args[1].destination) = Sep
           \/ ret'.args[1].destination = <<".">>) =>
          LET sources == glob(local, ret'.args[1].source)
              pairs == ret'.out[1]
              dir == Names(Remote(ret'.args[1].destination))
          IN /\ Len(pairs) = Len(sources)
             /\ \A i \in 1..Len(pairs) :
                   /\ pairs[i][1] = sources[i]
                   /\ Names(pairs[i][2]) = dir \o basename(sources[i])
                   /\ pairs[i][2][1] = Sep
                   /\ Names(pairs[i][2]) \in DOMAIN remote'
                   /\ remote'[Names(pairs[i][2])] = local[Names(sources[i])]
             /\ \A i, j \in 1..Len(pairs) :
                   basename(sources[i]) # basename(sources[j]) =>
                      Names(pairs[i][2]) # Names(pairs[j][2])]_vars

\* C25 witness: the two files of l/s were put to 'd/' and to '.', and the
\* call has returned two pairs.
C25_Witness ==
    /\ Served /\ ret.op = "put_file" /\ ret.exc = "none"
    /\ ret.args[1].scp = "OFF"
    /\ ret.args[1].source = <<"l", Sep, "s", Sep, "*">>
    /\ ret.args[1].destination \in {<<".">>, <<"d", Sep>>}
    /\ Len(ret.out[1]) = 2

\* C26: when put_file has returned, the remote file holds the bytes of the
\* local file with every line end (a CR LF pair, a lone CR or a lone LF)
\* replaced by one newline of the kind asked for, wherever the line ends
\* fall in the file; with no translation asked for, it holds the same bytes.
C26_EveryLineEndOnce ==
    [][(/\ Served' /\ ret'.op = "put_file" /\ ret'.exc = "none"
        /\ ret'.args[1].source = <<"f">>) =>
          LET nl == newline_of(ret'.args[1].newline)
              data == local[<<"f">>].data
          IN remote'[<<"home", "g">>].data =
                IF nl = <<>> THEN data ELSE sub(nl, data)]_vars

\* C27: a file put without translation and then got under another local
\* name comes back with the bytes it had, whatever its length is next to the
\* size of a chunk.
C27_RoundTrip ==
    [][(/\ ret.op = "put_file" /\ ret.exc = "none"
        /\ ret.args[1].newline = ""
        /\ Served' /\ ret'.op = "get_file" /\ ret'.exc = "none") =>
          /\ local'[<<"h">>] = local'[<<"f">>]
          /\ local'[<<"f">>] = local[<<"f">>]]_vars

\* C27 witness: a file longer than a chunk, with a CR LF pair across the end
\* of its first chunk, has been put and got back by the SFTP client.
C27_Witness ==
    /\ Served /\ ret.op = "get_file" /\ ret.exc = "none"
    /\ ret.args[1].scp = "OFF"
    /\ <<"h">> \in DOMAIN local
    /\ Len(local[<<"h">>].data) > ChunkSize
    /\ local[<<"h">>].data[ChunkSize] = CR
    /\ local[<<"h">>].data[ChunkSize + 1] = LF
    /\ transferred = <<<<<<"g">>, <<Sep, "h">>>>>>

\* C30: once put_file has returned or raised, no local file that it opened
\* is open, whether the copy ended by itself or by an exception in reading,
\* translating or writing a chunk.
C30_LocalFileClosed ==
    \A h \in open_files : h.side # "local"

\* C30 witness: put_file has raised out of the copy of its first chunk, and
\* the remote file it had opened has not been closed.
C30_Witness ==
    /\ Served /\ ret.op = "put_file" /\ ret.exc = "IOError"
    /\ ret.msg \in {"read", "write"}
    /\ Handle("remote", <<"home", "g">>) \in open_files

\* The files of file system fs below directory d, and those that are in d
\* itself.
FilesBelow(fs, d) ==
    {q \in DOMAIN fs :
        /\ Len(q) > Len(d) /\ SubSeq(q, 1, Len(d)) = d /\ ~fs[q].dir}
ChildFiles(fs, d) == {q \in FilesBelow(fs, d) : Len(q) = Len(d) + 1}

\* The files of file system after that were not in before, or not with
\* these bytes, each by its name and its bytes.
ChangedFiles(before, after) ==
    {<<Last(q), after[q].data>> :
        q \in {t \in DOMAIN after :
                  /\ ~after[t].dir
                  /\ t \notin DOMAIN before \/ before[t] # after[t]}}

\* C28: a get_directory or put_directory that ends normally, whichever client
\* serves it (scp OFF, TRANSFER or ALL), has copied exactly the files that
\* are in the source directory itself when recursive is False, and exactly
\* the files of the whole tree below it when recursive is True: those are
\* the copies made, each is at its destination with the bytes of its source,
\* and no other file of the destination side has changed.
C28_OnlyDirectChildren ==
    [][(/\ Served' /\ ret'.op \in {"put_directory", "get_directory"}
        /\ ret'.exc = "none") =>
          LET a == ret'.args[1]
              up == ret'.op = "put_directory"
              from == IF up THEN local ELSE remote
              to == IF up THEN remote' ELSE local'
              src == IF up THEN Names(a.source) ELSE Names(Remote(a.source))
              At(x) == IF up THEN Names(x) ELSE Names(Remote(x))
              To(x) == IF up THEN Names(Remote(x)) ELSE Names(x)
              expected == IF a.recursive THEN FilesBelow(from, src)
                          ELSE ChildFiles(from, src)
          IN /\ {At(transferred'[i][1]) :
                    i \in 1..Len(transferred')} = expected
             /\ \A i \in 1..Len(transferred') :
                   /\ To(transferred'[i][2]) \in DOMAIN to
                   /\ to[To(transferred'[i][2])]
                         = from[At(transferred'[i][1])]
             /\ (IF up THEN ChangedFiles(remote, remote')
                  ELSE ChangedFiles(local, local'))
                   \subseteq {<<Last(q), from[q].data>> : q \in expected}]_vars

\* The directories a walk from directory d of fs visits, and those of them
\* that hold nothing.
Visited(fs, d, recursive) ==
    IF recursive THEN {q \in Under(fs, d) : fs[q].dir} ELSE {d}
EmptyDirs(fs, dirs) ==
    {d \in dirs : \A q \in DOMAIN fs : ~(Len(q) = Len(d) + 1 /\ Front(q) = d)}

\* C29: a get_directory or put_directory of SFTPClient (the client of scp OFF
\* and, inherited, of scp TRANSFER) that ends normally returns a list in
\* which every copy of a file that was made is named by exactly one pair,
\* the file being at its destination with the bytes of its source; every
\* empty directory the walk has visited is named by exactly one pair, whose
\* destination is a directory after the call; and every pair is one of
\* these.
C29_OnePairPerFile ==
    [][(/\ Served' /\ ret'.op \in {"put_directory", "get_directory"}
        /\ ret'.exc = "none" /\ ret'.args[1].scp # "ALL") =>
          LET a == ret'.args[1]
              up == ret'.op = "put_directory"
              from == IF up THEN local ELSE remote
              to == IF up THEN remote' ELSE local'
              src == IF up THEN Names(a.source) ELSE Names(Remote(a.source))
              At(x) == IF up THEN Names(x) ELSE Names(Remote(x))
              To(x) == IF up THEN Names(Remote(x)) ELSE Names(x)
              pairs == ret'.out[1]
              Same(x, y) == At(x[1]) = At(y[1]) /\ To(x[2]) = To(y[2])
              empty == EmptyDirs(from, Visited(from, src, a.recursive))
          IN /\ \A j \in 1..Len(transferred') :
                   /\ Cardinality({i \in 1..Len(pairs) :
                                      Same(pairs[i], transferred'[j])}) = 1
                   /\ To(transferred'[j][2]) \in DOMAIN to
                   /\ to[To(transferred'[j][2])]
                         = from[At(transferred'[j][1])]
             /\ \A d \in empty :
                   /\ Cardinality({i \in 1..Len(pairs) :
                                      At(pairs[i][1]) = d}) = 1
                   /\ \A i \in 1..Len(pairs) :
                         At(pairs[i][1]) = d =>
                            /\ To(pairs[i][2]) \in DOMAIN to
                            /\ to[To(pairs[i][2])].dir
             /\ \A i \in 1..Len(pairs) :
                   \/ At(pairs[i][1]) \in empty
                   \/ /\ At(pairs[i][1]) \in FilesBelow(from, src)
                      /\ \E j \in 1..Len(transferred') :
                            Same(pairs[i], transferred'[j])
             /\ Len(pairs) = Len(transferred') + Cardinality(empty)]_vars

\* C29 witness: the local directory l has been put as t with its
\* subdirectories; four pairs were returned, three for its files and one for
\* its empty directory e, which is now the remote directory t/e.
C29_Witness ==
    /\ Served /\ ret.op = "put_directory" /\ ret.exc = "none"
    /\ ret.args[1].scp # "ALL" /\ ret.args[1].recursive
    /\ ret.args[1].source = <<"l">> /\ ret.args[1].destination = <<"t">>
    /\ Len(ret.out[1]) = 4 /\ Len(transferred) = 3
    /\ \E i \in 1..4 : ret.out[1][i] = <<<<"l", Sep, "e">>, <<"t", Sep, "e">>>>
    /\ isdir(remote, <<Sep, "home", Sep, "t", Sep, "e">>)

\* The probe that has just ended was made on the SFTP client of the open
\* connection, for a path whose last component is a pattern.
ProbedPattern ==
    /\ ret.op \in {"is_dir", "is_file"} /\ _sftp_client = "cur"
    /\ basename(ret.args[1].path) = <<"*">>

\* C31: is_dir and is_file of a path whose last component is a pattern
\* return a Boolean, and never raise: True exactly when the path has a
\* parent component, the parent is a remote directory, and an entry of the
\* asked kind in it has a name the pattern matches.
C31_PatternGivesBoolean ==
    [][ProbedPattern' =>
          LET path == ret'.args[1].path
              parent == Names(Remote(dirname(path)))
              asked == ret'.op = "is_dir"
          IN /\ ret'.exc = "none"
             /\ ret'.out \in {<<TRUE>>, <<FALSE>>}
             /\ ret'.out[1] =
                   (/\ LastSep(path) # 0
                    /\ parent \in DOMAIN remote /\ remote[parent].dir
                    /\ \E q \in DOMAIN remote :
                          /\ Len(q) = Len(parent) + 1 /\ Front(q) = parent
                          /\ remote[q].dir = asked)]_vars

\* What the generic SFTP client makes of the transfer request that ret names,
\* on the file systems as they are.
GenericOutcome(r) ==
    LET a == r.args[1]
    IN IF r.op = "put_file"
       THEN sftp_put_file(World, a.source, a.destination, a.newline, NoFault,
                          FALSE)
       ELSE IF r.op = "get_file"
       THEN sftp_get_file(World, a.source, a.destination, FALSE)
       ELSE IF r.op = "put_directory"
       THEN Collected(sftp_put_directory(World, a.source, a.destination,
                                         a.newline, a.recursive, FALSE))
       ELSE Collected(sftp_get_directory(World, a.source, a.destination,
                                         a.recursive, FALSE))

\* C32: a put_file, get_file, put_directory or get_directory request ends
\* under each of the three clients (scp OFF, TRANSFER, ALL) as it ends under
\* the generic SFTP client: it succeeds when that one does, returns the same
\* list of (source, destination) pairs and leaves the same files with the
\* same contents on both sides.
C32_BackendsInterchangeable ==
    [][Served' =>
          /\ (ret'.exc = "none") = (GenericOutcome(ret').exc = "none")
          /\ ret'.exc = "none" =>
                /\ ret'.out = GenericOutcome(ret').out
                /\ Len(ret'.out) = 1
                /\ remote' = GenericOutcome(ret').r
                /\ local' = GenericOutcome(ret').l]_vars

\* C33: execute_command reads the command it has started itself and leaves
\* the stack of started commands as it was: the step that starts it, every
\* step until it ends and the step that ends it, with the outputs or with
\* the timeout error or with the error of the start, keep the stack; the
\* channel it reads was free before the call and is not on the stack.
C33_StackAsBefore ==
    [][(\/ entry = "execute_command" \/ entry' = "execute_command"
        \/ ret'.op = "execute_command" /\ ret' # ret) =>
          /\ _started_commands' = _started_commands
          /\ entry' = "execute_command" =>
                /\ \A i \in 1..Len(_started_commands) :
                      _started_commands[i] # cur'
                /\ IF entry = "execute_command" THEN cur' = cur
                   ELSE chan[cur'].st = "free" /\ chan'[cur'].st = "open"]_vars

\* C33 witness: an execute_command has returned while a command started
\* before it is still on the stack.
C33_Witness ==
    /\ ret.op = "execute_command" /\ ret.exc = "none"
    /\ _started_commands # <<>>

\* The first n bytes a command writes to its stdout, and to its stderr.
WrittenOut(n) == [i \in 1..n |-> i]
WrittenErr(n) == [i \in 1..n |-> 0 - i]

\* C34: a read_command_output (or the read of execute_command) that returns
\* gives as stdout the bytes the command wrote to stdout, all of them and in
\* their order, and as stderr those it wrote to stderr, with or without a
\* timeout and in whatever chunks they arrived.
C34_OutputsComplete ==
    [][(/\ pc = "recv_exit_status" /\ pc' = "idle" /\ ret'.exc = "none"
        /\ ret'.op \in {"read_command_output", "execute_command"}) =>
          ret'.out = <<WrittenOut(chan[cur].nout),
                       WrittenErr(chan[cur].nerr)>>]_vars

\* C34 witness: a read with a timeout has returned two bytes of stdout and
\* two of stderr.
C34_Witness ==
    /\ ret.op = "read_command_output" /\ ret.exc = "none" /\ ret.t > 0
    /\ ret.out = <<WrittenOut(2), WrittenErr(2)>>

\* C35: a read_command_output with a timeout ends, with the outputs or with
\* the timeout error, whatever the remote side does or fails to do.
C35_ReadWithTimeoutEnds ==
    (pc # "idle" /\ entry # "none" /\ timeout > 0) ~> (pc = "idle")

\* C36: a start_command that fails leaves the stack of started commands as
\* it was; one that succeeds pushes exactly one command, on a channel that
\* was free, that no command on the stack has, and leaves the other
\* channels as they were.
C36_FailedStartPushesNothing ==
    [][(/\ ret'.op = "start_command"
        /\ ret' # ret \/ _started_commands' # _started_commands
                      \/ chan' # chan) =>
          IF ret'.exc # "none"
          THEN _started_commands' = _started_commands
          ELSE \E c \in ChanIds :
                  /\ _started_commands' = Append(_started_commands, c)
                  /\ chan[c].st = "free" /\ chan'[c].st = "open"
                  /\ \A i \in 1..Len(_started_commands) :
                        _started_commands[i] # c
                  /\ \A d \in ChanIds \ {c} : chan'[d] = chan[d]]_vars

\* C36 witness: a start_command has failed on the open connection while an
\* earlier command is on the stack.
C36_Witness ==
    /\ ret.op = "start_command" /\ ret.exc = "SSHException"
    /\ client = "open" /\ _started_commands # <<>>

\* C38: when close() has returned, the stack of started commands is empty.
C38_CloseEmptiesStack == ret.op = "close" => _started_commands = <<>>

\* What the running or last shell call has taken from the shell: the bytes
\* of stream that are no longer in the buffer.
Consumed == SubSeq(stream, 1, Len(stream) - Len(in_buffer))

\* C37: write_until_expected fails with its timeout error only if expected
\* is not contained in the output the call consumed from the shell, also
\* when the characters of expected arrived over two consecutive attempts.
C37_TimeoutOnlyIfNeverSeen ==
    TimedOut("write_until_expected") =>
        ~Contains(Consumed, _encode(call.expected[1]))

\* C39: in every reachable state no shell and no transfer client that was
\* created on an earlier transport is cached: when the transport is closed,
\* by close() or by a failed login or login_with_public_key, or replaced,
\* the objects built on it are discarded.
C39_CachedOnCurrentTransport == \A i \in 1..4 : Caches[i] # "old"

\* C40: a get_directory with recursive=True by an SFTP client mirrors the
\* remote tree: every pair it returns names a remote path below the source
\* and the local path that lies at the same relative path below the
\* destination root, the directory build_destination gives for the call,
\* whatever local directories exist when the call is made.
C40_RecursiveDownloadMirrors ==
    [][(/\ ret'.op = "get_directory" /\ ret'.exc = "none"
        /\ ret'.args[1].recursive /\ ret'.args[1].scp # "ALL") =>
          LET a == ret'.args[1]
              src == Names(Remote(_remove_ending_path_separator(a.source)))
              root == Names(build_destination(World, a.source,
                                              a.destination).destination)
          IN \A i \in 1..Len(ret'.out[1]) :
                LET from == Names(Remote(ret'.out[1][i][1]))
                    to == Names(ret'.out[1][i][2])
                IN /\ Len(from) >= Len(src)
                   /\ to = root \o SubSeq(from, Len(src) + 1, Len(from))]_vars
====
